---- MODULE Spec2Model ----
(***************************************************************************)
(* Content-to-layout matching engine of n8n-google-slides-api:             *)
(* LayoutAnalyzer (src/core/layout-analyzer.js) and ContentMatcher         *)
(* (src/core/content-matcher.js), modelled as operators over JavaScript    *)
(* values and applied by the actions of small state machines, and the      *)
(* POST /api/match-layout handler of src/external-service/server.js, which *)
(* writes ContentMatcher.SCORING_WEIGHTS between matching runs.            *)
(*                                                                         *)
(* JavaScript strings are sequences of one-character strings.  A content   *)
(* body is a record [def, str, fill]: the characters str followed by fill  *)
(* copies of the letter "x" (a run-length form of long bodies; no token    *)
(* the code searches for contains an "x", so a match never reaches into    *)
(* the run).  An optional value carries def = FALSE when it is undefined.  *)
(***************************************************************************)
EXTENDS Integers, Sequences, FiniteSets, TLC

(* ------------------------------ bounds -------------------------------- *)
MaxPlaceholders == 3
MaxLayouts == 4
MaxPartialLayouts == 2
MaxRuns == 2

(* ------------------------- string literals ---------------------------- *)
kTitleOnlyU == <<"T", "I", "T", "L", "E", "_", "O", "N", "L", "Y">>
kTitleOnlyS == <<"T", "I", "T", "L", "E", " ", "O", "N", "L", "Y">>
kSectionHeaderU == <<"S", "E", "C", "T", "I", "O", "N", "_", "H", "E", "A", "D", "E", "R">>
kSectionHeaderS == <<"S", "E", "C", "T", "I", "O", "N", " ", "H", "E", "A", "D", "E", "R">>
kTwoColumnsU == <<"T", "W", "O", "_", "C", "O", "L", "U", "M", "N", "S">>
kTwoColumnsS == <<"T", "W", "O", " ", "C", "O", "L", "U", "M", "N", "S">>
kBlank == <<"B", "L", "A", "N", "K">>
kAgenda == <<"a", "g", "e", "n", "d", "a">>
kQuote == <<"q", "u", "o", "t", "e">>
kSection == <<"s", "e", "c", "t", "i", "o", "n">>
kChapter == <<"c", "h", "a", "p", "t", "e", "r">>
kVs == <<"v", "s">>
kVersus == <<"v", "e", "r", "s", "u", "s">>
kThank == <<"t", "h", "a", "n", "k">>
kConclusion == <<"c", "o", "n", "c", "l", "u", "s", "i", "o", "n">>
kUnnamedLayout == <<"U", "n", "n", "a", "m", "e", "d", " ", "L", "a", "y", "o", "u", "t">>
nmTitleOnly == <<"T", "i", "t", "l", "e", " ", "O", "n", "l", "y">>
nmTitleOnlyApi == <<"T", "I", "T", "L", "E", "_", "O", "N", "L", "Y">>
nmSectionHeader == <<"S", "e", "c", "t", "i", "o", "n", " ", "h", "e", "a", "d", "e", "r">>
nmSectionHeaderApi == <<"S", "E", "C", "T", "I", "O", "N", "_", "H", "E", "A", "D", "E", "R">>
nmTwoColumns == <<"T", "i", "t", "l", "e", " ", "a", "n", "d", " ", "t", "w", "o", " ", "c", "o", "l", "u", "m", "n", "s">>
nmTwoColumnsApi == <<"T", "I", "T", "L", "E", "_", "A", "N", "D", "_", "T", "W", "O", "_", "C", "O", "L", "U", "M", "N", "S">>
nmBlank == <<"B", "l", "a", "n", "k">>
nmTitleAndBody == <<"T", "i", "t", "l", "e", " ", "a", "n", "d", " ", "b", "o", "d", "y">>
nmBlankSectionHeader == <<"B", "l", "a", "n", "k", " ", "s", "e", "c", "t", "i", "o", "n", " ", "h", "e", "a", "d", "e", "r">>
ttQ1Strategy == <<"Q", "1", " ", "S", "t", "r", "a", "t", "e", "g", "y">>
ttAgendaQuote == <<"W", "e", "e", "k", "l", "y", " ", "A", "g", "e", "n", "d", "a", " ", "a", "n", "d", " ", "Q", "u", "o", "t", "e">>
ttFamousQuote == <<"F", "a", "m", "o", "u", "s", " ", "Q", "u", "o", "t", "e">>
ttChapter == <<"C", "h", "a", "p", "t", "e", "r", " ", "2">>
ttNewSection == <<"N", "e", "w", " ", "S", "e", "c", "t", "i", "o", "n">>
ttVs == <<"C", "a", "t", "s", " ", "v", "s", " ", "D", "o", "g", "s">>
ttThankYou == <<"T", "h", "a", "n", "k", " ", "Y", "o", "u">>
ttSpaces == <<" ", " ">>
bdPlan == <<"P", "l", "a", "n", " ", "f", "o", "r", " ", "Q", "1">>
bdAgenda == <<"O", "u", "r", " ", "A", "G", "E", "N", "D", "A", " ", "t", "o", "d", "a", "y">>
bdApostrophe == <<"I", "t", "'", "s", " ", "d", "o", "n", "e">>
bdDoubleQuote == <<"H", "e", " ", "s", "a", "i", "d", " ", "\"", "g", "o", "\"">>
bdSpaces == <<" ">>
Lowers == <<"a", "b", "c", "d", "e", "f", "g", "h", "i", "j", "k", "l", "m", "n", "o", "p", "q", "r", "s", "t", "u", "v", "w", "x", "y", "z">>
Uppers == <<"A", "B", "C", "D", "E", "F", "G", "H", "I", "J", "K", "L", "M", "N", "O", "P", "Q", "R", "S", "T", "U", "V", "W", "X", "Y", "Z">>

(* ------------------------ String.prototype ---------------------------- *)
\* String.prototype.toUpperCase on one character
UpperChar(c) ==
  IF \E i \in 1..Len(Lowers) : Lowers[i] = c
  THEN Uppers[CHOOSE i \in 1..Len(Lowers) : Lowers[i] = c]
  ELSE c

\* String.prototype.toLowerCase on one character
LowerChar(c) ==
  IF \E i \in 1..Len(Uppers) : Uppers[i] = c
  THEN Lowers[CHOOSE i \in 1..Len(Uppers) : Uppers[i] = c]
  ELSE c

ToUpperCase(s) == [i \in 1..Len(s) |-> UpperChar(s[i])]

ToLowerCase(s) == [i \in 1..Len(s) |-> LowerChar(s[i])]

\* String.prototype.includes: t occurs in s as a contiguous substring
Includes(s, t) ==
  \E i \in 0..(Len(s) - Len(t)) : \A j \in 1..Len(t) : s[i + j] = t[j]

\* Array.prototype.includes on an array of placeholder types
ArrIncludes(arr, v) == \E i \in 1..Len(arr) : arr[i] = v

\* Array.prototype.filter(pred).length for a membership predicate
CountIn(arr, S) == Cardinality({i \in 1..Len(arr) : arr[i] \in S})

\* s.trim() is a non-empty string
TrimNonEmpty(s) == \E i \in 1..Len(s) : s[i] # " "

(* --------------------------- optional values -------------------------- *)
\* undefined (or null)
Undefined == [def |-> FALSE, str |-> <<>>, isString |-> FALSE]

\* the string s
Str(s) == [def |-> TRUE, str |-> s, isString |-> TRUE]

\* a truthy value that is not a string, such as the number 42
NotAString == [def |-> TRUE, str |-> <<>>, isString |-> FALSE]

\* JavaScript truthiness of an optional value
Truthy(s) == s.def /\ (~s.isString \/ Len(s.str) > 0)

(* ----------------------------- layouts -------------------------------- *)
PlaceholderTypes == {"TITLE", "CENTERED_TITLE", "BODY", "CONTENT", "SUBTITLE", "PICTURE"}

Categories == {"titleOnly", "titleAndBody", "titleAndTwoColumns", "sectionHeader", "blank", "other"}

\* layout.placeholders.map(p => p.type)
TypesOf(layout) == [i \in 1..Len(layout.placeholders) |-> layout.placeholders[i].type]

(* -------------------------- LayoutAnalyzer ---------------------------- *)
\* determineLayoutCategory comparing the display name as written, without
\* toUpperCase
determineLayoutCategoryCaseSensitive(placeholderTypes, displayName) ==
  LET nameUpper == IF displayName.def THEN displayName.str ELSE <<>>
      hasTitle == ArrIncludes(placeholderTypes, "TITLE") \/ ArrIncludes(placeholderTypes, "CENTERED_TITLE")
      hasBody == ArrIncludes(placeholderTypes, "BODY") \/ ArrIncludes(placeholderTypes, "SUBTITLE")
      hasContent == ArrIncludes(placeholderTypes, "CONTENT")
      bodyCount == CountIn(placeholderTypes, {"BODY", "CONTENT", "SUBTITLE"})
  IN  IF Includes(nameUpper, kTitleOnlyU) \/ Includes(nameUpper, kTitleOnlyS) THEN "titleOnly"
      ELSE IF Includes(nameUpper, kSectionHeaderU) \/ Includes(nameUpper, kSectionHeaderS) THEN "sectionHeader"
      ELSE IF Includes(nameUpper, kTwoColumnsU) \/ Includes(nameUpper, kTwoColumnsS) THEN "titleAndTwoColumns"
      ELSE IF Includes(nameUpper, kBlank) THEN "blank"
      ELSE IF hasTitle /\ ~hasBody /\ ~hasContent THEN "titleOnly"
      ELSE IF hasTitle /\ (hasBody \/ hasContent) /\ bodyCount = 1 THEN "titleAndBody"
      ELSE IF hasTitle /\ bodyCount >= 2 THEN "titleAndTwoColumns"
      ELSE IF hasTitle /\ ArrIncludes(placeholderTypes, "SUBTITLE") THEN "sectionHeader"
      ELSE IF Len(placeholderTypes) = 0 THEN "blank"
      ELSE "other"

\* LayoutAnalyzer.determineLayoutCategory(placeholderTypes, displayName = '')
determineLayoutCategory(placeholderTypes, displayName) ==
  LET name == IF displayName.def THEN displayName.str ELSE <<>>
      nameUpper == ToUpperCase(name)
      hasTitle == ArrIncludes(placeholderTypes, "TITLE") \/ ArrIncludes(placeholderTypes, "CENTERED_TITLE")
      hasBody == ArrIncludes(placeholderTypes, "BODY") \/ ArrIncludes(placeholderTypes, "SUBTITLE")
      hasContent == ArrIncludes(placeholderTypes, "CONTENT")
      bodyCount == CountIn(placeholderTypes, {"BODY", "CONTENT", "SUBTITLE"})
  IN  IF Includes(nameUpper, kTitleOnlyU) \/ Includes(nameUpper, kTitleOnlyS) THEN "titleOnly"
      ELSE IF Includes(nameUpper, kSectionHeaderU) \/ Includes(nameUpper, kSectionHeaderS) THEN "sectionHeader"
      ELSE IF Includes(nameUpper, kTwoColumnsU) \/ Includes(nameUpper, kTwoColumnsS) THEN "titleAndTwoColumns"
      ELSE IF Includes(nameUpper, kBlank) THEN "blank"
      ELSE IF hasTitle /\ ~hasBody /\ ~hasContent THEN "titleOnly"
      ELSE IF hasTitle /\ (hasBody \/ hasContent) /\ bodyCount = 1 THEN "titleAndBody"
      ELSE IF hasTitle /\ bodyCount >= 2 THEN "titleAndTwoColumns"
      ELSE IF hasTitle /\ ArrIncludes(placeholderTypes, "SUBTITLE") THEN "sectionHeader"
      ELSE IF Len(placeholderTypes) = 0 THEN "blank"
      ELSE "other"

\* the forEach loop with the push into other outside the else branch
RECURSIVE categorizeFromAlsoOther(_, _, _)
categorizeFromAlsoOther(layouts, i, categories) ==
  IF i > Len(layouts) THEN categories
  ELSE LET layout == layouts[i]
           category == determineLayoutCategory(TypesOf(layout), layout.displayName)
           pushed == IF category \in DOMAIN categories
                     THEN [categories EXCEPT ![category] = Append(@, layout)]
                     ELSE categories
       IN  categorizeFromAlsoOther(layouts, i + 1, [pushed EXCEPT !["other"] = Append(@, layout)])

\* the forEach loop of LayoutAnalyzer.categorizeLayouts, from layout i on
RECURSIVE categorizeFrom(_, _, _)
categorizeFrom(layouts, i, categories) ==
  IF i > Len(layouts) THEN categories
  ELSE LET layout == layouts[i]
           category == determineLayoutCategory(TypesOf(layout), layout.displayName)
           key == IF category \in DOMAIN categories THEN category ELSE "other"
       IN  categorizeFrom(layouts, i + 1, [categories EXCEPT ![key] = Append(@, layout)])

\* LayoutAnalyzer.categorizeLayouts(layouts)
categorizeLayouts(layouts) == categorizeFrom(layouts, 1, [c \in Categories |-> <<>>])

\* the Set of placeholder types of getLayoutStats, in insertion order
RECURSIVE addTypes(_, _, _)
addTypes(types, i, seen) ==
  IF i > Len(types) THEN seen
  ELSE addTypes(types, i + 1, IF ArrIncludes(seen, types[i]) THEN seen ELSE Append(seen, types[i]))

RECURSIVE statTypes(_, _, _)
statTypes(layouts, i, seen) ==
  IF i > Len(layouts) THEN seen
  ELSE statTypes(layouts, i + 1, addTypes(TypesOf(layouts[i]), 1, seen))

\* LayoutAnalyzer.getLayoutStats(layouts)
getLayoutStats(layouts) ==
  LET categories == categorizeLayouts(layouts)
  IN  [total |-> Len(layouts),
       categories |-> [c \in DOMAIN categories |-> Len(categories[c])],
       placeholderTypes |-> statTypes(layouts, 1, <<>>)]

\* the bounds of a placeholder: element.size && element.transform ? {...} : null
boundsOf(element) ==
  IF element.size.def /\ element.transform.def
  THEN [def |-> TRUE,
        x |-> element.transform.translateX, y |-> element.transform.translateY,
        width |-> element.size.width, height |-> element.size.height]
  ELSE [def |-> FALSE, x |-> 0, y |-> 0, width |-> 0, height |-> 0]

\* the placeholder object extractPlaceholders pushes for an element
placeholderOf(element) ==
  [objectId |-> element.objectId,
   type |-> element.shape.placeholder.type,
   index |-> element.shape.placeholder.index,
   bounds |-> boundsOf(element),
   parentObjectId |-> element.shape.placeholder.parentObjectId]

\* the forEach of extractPlaceholders that keeps every element with a shape
RECURSIVE extractFromShapes(_, _, _)
extractFromShapes(pageElements, i, placeholders) ==
  IF i > Len(pageElements) THEN placeholders
  ELSE extractFromShapes(pageElements, i + 1,
         IF pageElements[i].shape.def
         THEN Append(placeholders, placeholderOf(pageElements[i]))
         ELSE placeholders)

\* layout.pageElements.forEach of extractPlaceholders, from element i on
RECURSIVE extractFrom(_, _, _)
extractFrom(pageElements, i, placeholders) ==
  IF i > Len(pageElements) THEN placeholders
  ELSE extractFrom(pageElements, i + 1,
         IF pageElements[i].shape.def /\ pageElements[i].shape.placeholder.def
         THEN Append(placeholders, placeholderOf(pageElements[i]))
         ELSE placeholders)

\* LayoutAnalyzer.extractPlaceholders(layout)
extractPlaceholders(layout) ==
  IF ~layout.pageElements.def THEN <<>>
  ELSE extractFrom(layout.pageElements.items, 1, <<>>)

\* the layoutInfo object extractLayouts pushes for a raw layout
layoutInfoOf(layout) ==
  [objectId |-> layout.objectId,
   layoutProperties |-> layout.layoutProperties,
   displayName |-> IF layout.layoutProperties.def /\ Truthy(layout.layoutProperties.displayName)
                   THEN layout.layoutProperties.displayName
                   ELSE Str(kUnnamedLayout),
   placeholders |-> extractPlaceholders(layout),
   score |-> 0]

\* LayoutAnalyzer.extractLayouts(presentation); threw = TRUE is the
\* TypeError of reading .layouts of undefined or null, or of calling
\* forEach on a truthy value that is not an array
extractLayouts(presentation) ==
  IF ~presentation.def
  THEN [threw |-> TRUE, error |-> "TypeError", layouts |-> <<>>]
  ELSE IF presentation.layouts.kind = "falsy"
  THEN [threw |-> FALSE, error |-> "", layouts |-> <<>>]
  ELSE IF presentation.layouts.kind # "array"
  THEN [threw |-> TRUE, error |-> "TypeError", layouts |-> <<>>]
  ELSE [threw |-> FALSE, error |-> "",
        layouts |-> [i \in 1..Len(presentation.layouts.items) |->
                       layoutInfoOf(presentation.layouts.items[i])]]

(* -------------------------- ContentMatcher ---------------------------- *)
\* content.body.length, for a defined body
BodyLength(body) == Len(body.str) + body.fill

\* determineContentType with the quote rule tested before the agenda rule
determineContentTypeQuoteFirst(content, analysis) ==
  LET title == ToLowerCase(IF Truthy(content.title) THEN content.title.str ELSE <<>>)
      body == ToLowerCase(IF content.body.def THEN content.body.str ELSE <<>>)
  IN  IF Includes(title, kQuote) \/ (\E i \in 1..Len(body) : body[i] \in {"\"", "'"}) THEN "quote"
      ELSE IF Includes(title, kAgenda) \/ Includes(body, kAgenda) THEN "agenda"
      ELSE IF Includes(title, kSection) \/ Includes(title, kChapter) THEN "section"
      ELSE IF analysis.hasImage /\ ~analysis.hasBody THEN "image-focused"
      ELSE IF analysis.hasBullets /\ analysis.bulletCount > 5 THEN "list-heavy"
      ELSE IF (content.comparison.def /\ content.comparison.val)
              \/ Includes(title, kVs) \/ Includes(title, kVersus) THEN "comparison"
      ELSE IF Includes(title, kThank) \/ Includes(title, kConclusion) THEN "closing"
      ELSE "general"

\* ContentMatcher.determineContentType(content, analysis)
determineContentType(content, analysis) ==
  LET title == ToLowerCase(IF Truthy(content.title) THEN content.title.str ELSE <<>>)
      body == ToLowerCase(IF content.body.def THEN content.body.str ELSE <<>>)
  IN  IF Includes(title, kAgenda) \/ Includes(body, kAgenda) THEN "agenda"
      ELSE IF Includes(title, kQuote) \/ (\E i \in 1..Len(body) : body[i] \in {"\"", "'"}) THEN "quote"
      ELSE IF Includes(title, kSection) \/ Includes(title, kChapter) THEN "section"
      ELSE IF analysis.hasImage /\ ~analysis.hasBody THEN "image-focused"
      ELSE IF analysis.hasBullets /\ analysis.bulletCount > 5 THEN "list-heavy"
      ELSE IF (content.comparison.def /\ content.comparison.val)
              \/ Includes(title, kVs) \/ Includes(title, kVersus) THEN "comparison"
      ELSE IF Includes(title, kThank) \/ Includes(title, kConclusion) THEN "closing"
      ELSE "general"

\* the length bucket with the thresholds themselves counted upward
contentLengthInclusive(length) ==
  IF length >= 500 THEN "long" ELSE IF length >= 150 THEN "medium" ELSE "short"

\* analysis.contentLength of analyzeContent for a bodyText of the length
contentLength(length) ==
  IF length > 500 THEN "long" ELSE IF length > 150 THEN "medium" ELSE "short"

\* analyzeContent throws a TypeError: content.title && content.title.trim()
\* calls trim on a truthy title that is not a string
analyzeContentThrows(content) == content.title.def /\ ~content.title.isString

\* ContentMatcher.analyzeContent(content), for a content it does not throw on
analyzeContent(content) ==
  LET bodyLen == IF content.body.def THEN BodyLength(content.body) ELSE 0
      analysis ==
        [hasTitle |-> Truthy(content.title) /\ TrimNonEmpty(content.title.str),
         hasBody |-> content.body.def /\ bodyLen > 0
                     /\ (TrimNonEmpty(content.body.str) \/ content.body.fill > 0),
         hasImage |-> Truthy(content.imageUrl)
                      \/ (content.images.def /\ Len(content.images.items) > 0),
         hasBullets |-> (content.bullets.def /\ Len(content.bullets.items) > 0)
                        \/ (content.bulletPoints.def /\ Len(content.bulletPoints.items) > 0),
         hasMultipleColumns |-> content.columns.def /\ Len(content.columns.items) > 1,
         contentLength |-> contentLength(bodyLen),
         contentType |-> "general",
         imageCount |-> IF content.images.def THEN Len(content.images.items)
                        ELSE IF Truthy(content.imageUrl) THEN 1 ELSE 0,
         bulletCount |-> IF content.bulletPoints.def THEN Len(content.bulletPoints.items)
                         ELSE IF content.bullets.def THEN Len(content.bullets.items) ELSE 0]
  IN  [analysis EXCEPT !.contentType = determineContentType(content, analysis)]

\* the table with the image-focused scores of blank and titleOnly exchanged
scoreMatrixTitleOnlyFirst ==
  [section |-> [sectionHeader |-> 40, titleOnly |-> 30, titleAndBody |-> 20],
   quote |-> [sectionHeader |-> 35, titleOnly |-> 30, titleAndBody |-> 25],
   imageFocused |-> [blank |-> 35, titleOnly |-> 40, titleAndBody |-> 20],
   comparison |-> [titleAndTwoColumns |-> 40, titleAndBody |-> 25, blank |-> 20],
   listHeavy |-> [titleAndBody |-> 35, titleAndTwoColumns |-> 30, blank |-> 20],
   general |-> [titleAndBody |-> 35, titleOnly |-> 25, sectionHeader |-> 20,
                titleAndTwoColumns |-> 15, blank |-> 10]]

\* the scoreMatrix literal of getCategoryScores
scoreMatrix ==
  [section |-> [sectionHeader |-> 40, titleOnly |-> 30, titleAndBody |-> 20],
   quote |-> [sectionHeader |-> 35, titleOnly |-> 30, titleAndBody |-> 25],
   imageFocused |-> [blank |-> 40, titleOnly |-> 35, titleAndBody |-> 20],
   comparison |-> [titleAndTwoColumns |-> 40, titleAndBody |-> 25, blank |-> 20],
   listHeavy |-> [titleAndBody |-> 35, titleAndTwoColumns |-> 30, blank |-> 20],
   general |-> [titleAndBody |-> 35, titleOnly |-> 25, sectionHeader |-> 20,
                titleAndTwoColumns |-> 15, blank |-> 10]]

\* the property key of a content type in scoreMatrix
MatrixKey(contentType) ==
  IF contentType = "image-focused" THEN "imageFocused"
  ELSE IF contentType = "list-heavy" THEN "listHeavy" ELSE contentType

\* obj?.[key], with undefined read as the falsy 0
Lookup(row, key) == IF key \in DOMAIN row THEN row[key] ELSE 0

\* getCategoryScores falling back to the general row for an unknown tag only
getCategoryScoresRowFallback(contentAnalysis, category) ==
  LET k == MatrixKey(contentAnalysis.contentType)
  IN  IF k \in DOMAIN scoreMatrix THEN Lookup(scoreMatrix[k], category)
      ELSE Lookup(scoreMatrix["general"], category)

\* ContentMatcher.getCategoryScores(contentAnalysis, category):
\* scoreMatrix[contentType]?.[category] || scoreMatrix['general'][category] || 0
getCategoryScores(contentAnalysis, category) ==
  LET k == MatrixKey(contentAnalysis.contentType)
      own == IF k \in DOMAIN scoreMatrix THEN Lookup(scoreMatrix[k], category) ELSE 0
      general == Lookup(scoreMatrix["general"], category)
  IN  IF own # 0 THEN own ELSE IF general # 0 THEN general ELSE 0

\* ContentMatcher.getLayoutCategory(layout)
getLayoutCategory(layout) ==
  LET placeholderTypes == TypesOf(layout)
      displayName == IF layout.displayName.def THEN ToUpperCase(layout.displayName.str) ELSE <<>>
      hasTitle == ArrIncludes(placeholderTypes, "TITLE")
      hasBody == ArrIncludes(placeholderTypes, "BODY")
      bodyCount == CountIn(placeholderTypes, {"BODY", "CONTENT"})
  IN  IF Includes(displayName, kTitleOnlyU) \/ Includes(displayName, kTitleOnlyS) THEN "titleOnly"
      ELSE IF Includes(displayName, kSectionHeaderU) THEN "sectionHeader"
      ELSE IF Includes(displayName, kTwoColumnsU) THEN "titleAndTwoColumns"
      ELSE IF Includes(displayName, kBlank) THEN "blank"
      ELSE IF hasTitle /\ ~hasBody THEN "titleOnly"
      ELSE IF hasTitle /\ hasBody /\ bodyCount = 1 THEN "titleAndBody"
      ELSE IF hasTitle /\ bodyCount >= 2 THEN "titleAndTwoColumns"
      ELSE IF ArrIncludes(placeholderTypes, "SUBTITLE") THEN "sectionHeader"
      ELSE IF Len(placeholderTypes) = 0 THEN "blank"
      ELSE "other"

\* Clamp without the lower bound: Math.min(100, score)
ClampUpperOnly(score) == IF score < 100 THEN score ELSE 100

\* Math.max(0, Math.min(100, score))
Clamp(score) ==
  LET capped == IF score < 100 THEN score ELSE 100
  IN  IF capped > 0 THEN capped ELSE 0

\* rawLayoutScore with the body bonus of 15 written as 10
rawLayoutScoreBodyTen(contentAnalysis, layout) ==
  LET placeholderTypes == TypesOf(layout)
      category == getLayoutCategory(layout)
  IN  getCategoryScores(contentAnalysis, category)
      + (IF contentAnalysis.hasTitle /\ ArrIncludes(placeholderTypes, "TITLE") THEN 20 ELSE 0)
      + (IF contentAnalysis.hasBody /\ ArrIncludes(placeholderTypes, "BODY") THEN 10 ELSE 0)
      + (IF contentAnalysis.hasImage /\ ArrIncludes(placeholderTypes, "PICTURE") THEN 10 ELSE 0)
      - (IF ~contentAnalysis.hasTitle /\ ArrIncludes(placeholderTypes, "TITLE") THEN 5 ELSE 0)
      - (IF ~contentAnalysis.hasBody /\ ArrIncludes(placeholderTypes, "BODY") THEN 5 ELSE 0)
      - (IF contentAnalysis.contentLength = "long" /\ category = "titleOnly" THEN 15 ELSE 0)
      - (IF contentAnalysis.contentLength = "short" /\ category = "titleAndTwoColumns" THEN 10 ELSE 0)

\* the score of calculateLayoutScore before the final clamp
rawLayoutScore(contentAnalysis, layout) ==
  LET placeholderTypes == TypesOf(layout)
      category == getLayoutCategory(layout)
  IN  getCategoryScores(contentAnalysis, category)
      + (IF contentAnalysis.hasTitle /\ ArrIncludes(placeholderTypes, "TITLE") THEN 20 ELSE 0)
      + (IF contentAnalysis.hasBody /\ ArrIncludes(placeholderTypes, "BODY") THEN 15 ELSE 0)
      + (IF contentAnalysis.hasImage /\ ArrIncludes(placeholderTypes, "PICTURE") THEN 10 ELSE 0)
      - (IF ~contentAnalysis.hasTitle /\ ArrIncludes(placeholderTypes, "TITLE") THEN 5 ELSE 0)
      - (IF ~contentAnalysis.hasBody /\ ArrIncludes(placeholderTypes, "BODY") THEN 5 ELSE 0)
      - (IF contentAnalysis.contentLength = "long" /\ category = "titleOnly" THEN 15 ELSE 0)
      - (IF contentAnalysis.contentLength = "short" /\ category = "titleAndTwoColumns" THEN 10 ELSE 0)

\* ContentMatcher.calculateLayoutScore(contentAnalysis, layout)
calculateLayoutScore(contentAnalysis, layout) == Clamp(rawLayoutScore(contentAnalysis, layout))

\* generateReasoning with the title and body notes pushed without looking
\* at the placeholders of the selected layout
generateReasoningNoPlaceholderCheck(contentAnalysis, selectedLayout) ==
  LET category == getLayoutCategory(selectedLayout)
  IN  (IF contentAnalysis.contentType # "general"
       THEN <<[note |-> "type", contentType |-> contentAnalysis.contentType, category |-> category]>>
       ELSE <<>>)
      \o (IF contentAnalysis.hasTitle THEN <<[note |-> "title"]>> ELSE <<>>)
      \o (IF contentAnalysis.hasBody THEN <<[note |-> "body"]>> ELSE <<>>)
      \o (IF contentAnalysis.hasImage THEN <<[note |-> "image"]>> ELSE <<>>)
      \o <<[note |-> "score", score |-> selectedLayout.score]>>

\* ContentMatcher.generateReasoning(contentAnalysis, selectedLayout): the
\* reasons array that join('; ') concatenates, one record per pushed reason
generateReasoning(contentAnalysis, selectedLayout) ==
  LET category == getLayoutCategory(selectedLayout)
      types == TypesOf(selectedLayout)
  IN  (IF contentAnalysis.contentType # "general"
       THEN <<[note |-> "type", contentType |-> contentAnalysis.contentType, category |-> category]>>
       ELSE <<>>)
      \o (IF contentAnalysis.hasTitle /\ ArrIncludes(types, "TITLE") THEN <<[note |-> "title"]>> ELSE <<>>)
      \o (IF contentAnalysis.hasBody /\ ArrIncludes(types, "BODY") THEN <<[note |-> "body"]>> ELSE <<>>)
      \o (IF contentAnalysis.hasImage THEN <<[note |-> "image"]>> ELSE <<>>)
      \o <<[note |-> "score", score |-> selectedLayout.score]>>

\* an insertion that puts x before the elements of equal score
InsertBeforeEqual(sorted, x) ==
  LET before == Cardinality({i \in 1..Len(sorted) : sorted[i].score > x.score})
  IN  SubSeq(sorted, 1, before) \o <<x>> \o SubSeq(sorted, before + 1, Len(sorted))

\* one insertion of the stable sort: x goes after every element the
\* comparator (a, b) => b.score - a.score does not put behind it
InsertByScore(sorted, x) ==
  LET before == Cardinality({i \in 1..Len(sorted) : sorted[i].score >= x.score})
  IN  SubSeq(sorted, 1, before) \o <<x>> \o SubSeq(sorted, before + 1, Len(sorted))

\* Array.prototype.sort((a, b) => b.score - a.score): stable, descending
RECURSIVE SortByScore(_, _, _)
SortByScore(arr, i, sorted) ==
  IF i > Len(arr) THEN sorted
  ELSE SortByScore(arr, i + 1, InsertByScore(sorted, arr[i]))

\* Array.prototype.slice(0, 2)
Slice02(arr) == SubSeq(arr, 1, IF Len(arr) < 2 THEN Len(arr) ELSE 2)

\* Array.prototype.slice(1, 3)
Slice13(arr) == SubSeq(arr, 2, IF Len(arr) < 3 THEN Len(arr) ELSE 3)

\* findBestLayout guarded by !layouts alone: over [] nothing is scored and
\* generateReasoning(undefined) throws a TypeError
findBestLayoutNoLengthCheck(content, layouts) ==
  IF ~layouts.def
  THEN [threw |-> TRUE, error |-> "No layouts available", scored |-> <<>>]
  ELSE IF Len(layouts.items) = 0
  THEN [threw |-> TRUE, error |-> "TypeError", scored |-> <<>>]
  ELSE IF analyzeContentThrows(content)
  THEN [threw |-> TRUE, error |-> "TypeError", scored |-> <<>>]
  ELSE LET contentAnalysis == analyzeContent(content)
           mapped == [i \in 1..Len(layouts.items) |->
                        [layouts.items[i] EXCEPT !.score = calculateLayoutScore(contentAnalysis, layouts.items[i])]]
           scoredLayouts == SortByScore(mapped, 1, <<>>)
       IN  [threw |-> FALSE,
            scored |-> scoredLayouts,
            bestLayout |-> scoredLayouts[1],
            alternatives |-> Slice13(scoredLayouts),
            contentAnalysis |-> contentAnalysis,
            reasoning |-> generateReasoning(contentAnalysis, scoredLayouts[1])]

\* ContentMatcher.findBestLayout(content, layouts); threw = TRUE is the
\* thrown Error, scored is the scoredLayouts array as far as it was built
findBestLayout(content, layouts) ==
  IF ~layouts.def \/ Len(layouts.items) = 0
  THEN [threw |-> TRUE, error |-> "No layouts available", scored |-> <<>>]
  ELSE IF analyzeContentThrows(content)
  THEN [threw |-> TRUE, error |-> "TypeError", scored |-> <<>>]
  ELSE LET contentAnalysis == analyzeContent(content)
           mapped == [i \in 1..Len(layouts.items) |->
                        [layouts.items[i] EXCEPT !.score = calculateLayoutScore(contentAnalysis, layouts.items[i])]]
           scoredLayouts == SortByScore(mapped, 1, <<>>)
       IN  [threw |-> FALSE,
            scored |-> scoredLayouts,
            bestLayout |-> scoredLayouts[1],
            alternatives |-> Slice13(scoredLayouts),
            contentAnalysis |-> contentAnalysis,
            reasoning |-> generateReasoning(contentAnalysis, scoredLayouts[1])]

\* the layouts argument after a findBestLayout that scored its layouts in
\* place (layout.score = ...) and sorted the array it was given
layoutsAfterInPlace(content, layouts) ==
  IF findBestLayout(content, layouts).threw THEN layouts
  ELSE [def |-> TRUE, items |-> findBestLayout(content, layouts).scored]

\* the layouts argument after findBestLayout returned or threw: map builds
\* a new array, { ...layout, score } a new object for each layout, and sort
\* reorders the new array, so no statement writes to the argument
layoutsAfter(content, layouts) == layouts

(* -------------------------- external service -------------------------- *)
\* a static property that was never assigned: ContentMatcher.SCORING_WEIGHTS
\* before the first request with customWeights
NoWeights == [def |-> FALSE, entries |-> {}]

\* an object of weights, as its set of <<name, value>> entries
Weights(entries) == [def |-> TRUE, entries |-> entries]

\* { ...ContentMatcher.SCORING_WEIGHTS, ...options.customWeights }
mergeWeights(weights, customWeights) ==
  Weights({e \in weights.entries : \A c \in customWeights.entries : c[1] # e[1]}
          \cup customWeights.entries)

\* calculateConfidence(score, layoutCount)
calculateConfidence(score, layoutCount) ==
  LET normalizedScore == Clamp(score)
      optionsPenalty == IF layoutCount > 1 THEN (layoutCount - 1) * 2 ELSE 0
      adjustedScore == IF normalizedScore > optionsPenalty THEN normalizedScore - optionsPenalty ELSE 0
  IN  IF adjustedScore >= 80 THEN "very-high"
      ELSE IF adjustedScore >= 65 THEN "high"
      ELSE IF adjustedScore >= 45 THEN "medium"
      ELSE IF adjustedScore >= 25 THEN "low"
      ELSE "very-low"

\* one entry of explanation.alternatives; layout.score || 0 is the score
\* itself, an absent score being kept as 0
alternativeOf(layout) ==
  [displayName |-> layout.displayName,
   score |-> layout.score,
   reason |-> IF layout.score > 50 THEN "well" ELSE "adequately"]

\* generateDetailedExplanation(contentAnalysis, selectedLayout, allLayouts)
generateDetailedExplanation(contentAnalysis, selectedLayout, allLayouts) ==
  LET placeholderTypes == TypesOf(selectedLayout)
      reasons ==
        (IF contentAnalysis.hasTitle /\ ArrIncludes(placeholderTypes, "TITLE") THEN <<"title">> ELSE <<>>)
        \o (IF contentAnalysis.hasBody /\ ArrIncludes(placeholderTypes, "BODY") THEN <<"body">> ELSE <<>>)
        \o (IF contentAnalysis.hasImage /\ ArrIncludes(placeholderTypes, "PICTURE") THEN <<"image">> ELSE <<>>)
      others == SelectSeq(allLayouts, LAMBDA l : l.objectId # selectedLayout.objectId)
      sortedLayouts == Slice02(SortByScore(others, 1, <<>>))
  IN  [contentFactors |->
         (IF contentAnalysis.hasTitle THEN <<"title">> ELSE <<>>)
         \o (IF contentAnalysis.hasBody THEN <<"body">> ELSE <<>>)
         \o (IF contentAnalysis.hasImage THEN <<"image">> ELSE <<>>)
         \o (IF contentAnalysis.hasBullets THEN <<"bullets">> ELSE <<>>)
         \o <<contentAnalysis.contentType, contentAnalysis.contentLength>>,
       layoutFactors |-> [displayName |-> selectedLayout.displayName,
                          placeholders |-> placeholderTypes,
                          score |-> selectedLayout.score],
       matchingReason |-> IF Len(reasons) > 0 THEN reasons ELSE <<"best available">>,
       alternatives |-> [i \in 1..Len(sortedLayouts) |-> alternativeOf(sortedLayouts[i])]]

\* the response of the handler of POST /api/match-layout over req.body
apiMatchLayoutResponse(body) ==
  IF ~body.hasContent \/ ~body.layouts.def
  THEN [status |-> 400, error |-> "content and layouts are required"]
  ELSE IF analyzeContentThrows(body.content)
  THEN [status |-> 500, error |-> "TypeError"]
  ELSE LET result == findBestLayout(body.content, body.layouts)
           contentAnalysis == analyzeContent(body.content)
       IN  IF result.threw
           THEN [status |-> 500, error |-> result.error]
           ELSE [status |-> 200,
                 selectedLayout |-> result.bestLayout,
                 alternatives |-> result.alternatives,
                 contentAnalysis |-> contentAnalysis,
                 confidence |-> calculateConfidence(result.bestLayout.score, Len(body.layouts.items)),
                 explanation |-> generateDetailedExplanation(contentAnalysis, result.bestLayout,
                                                             body.layouts.items),
                 reasoning |-> result.reasoning]

\* the value the handler leaves in ContentMatcher.SCORING_WEIGHTS: the
\* assignment runs after the validation and analyzeContent, before
\* findBestLayout
apiMatchLayoutWeights(body, weights) ==
  IF ~body.hasContent \/ ~body.layouts.def THEN weights
  ELSE IF analyzeContentThrows(body.content) THEN weights
  ELSE IF body.customWeights.def THEN mergeWeights(weights, body.customWeights)
  ELSE weights

\* the handler of POST /api/match-layout over req.body, with the value of
\* ContentMatcher.SCORING_WEIGHTS before the request: the response it
\* sends and the value it leaves in ContentMatcher.SCORING_WEIGHTS
apiMatchLayout(body, weights) ==
  [response |-> apiMatchLayoutResponse(body), weights |-> apiMatchLayoutWeights(body, weights)]

(* --------------- match-layout.js: inline ContentMatcher --------------- *)
\* ContentMatcher.getLayoutCategory(layout) of match-layout.js
inlineGetLayoutCategory(layout) ==
  LET placeholderTypes == TypesOf(layout)
      displayName == IF layout.displayName.def THEN ToUpperCase(layout.displayName.str) ELSE <<>>
      hasTitle == ArrIncludes(placeholderTypes, "TITLE")
      hasBody == ArrIncludes(placeholderTypes, "BODY")
      bodyCount == CountIn(placeholderTypes, {"BODY", "CONTENT"})
  IN  IF Includes(displayName, kTitleOnlyU) THEN "titleOnly"
      ELSE IF Includes(displayName, kSectionHeaderU) THEN "sectionHeader"
      ELSE IF Includes(displayName, kTwoColumnsU) THEN "titleAndTwoColumns"
      ELSE IF Includes(displayName, kBlank) THEN "blank"
      ELSE IF hasTitle /\ ~hasBody THEN "titleOnly"
      ELSE IF hasTitle /\ hasBody /\ bodyCount = 1 THEN "titleAndBody"
      ELSE IF hasTitle /\ bodyCount >= 2 THEN "titleAndTwoColumns"
      ELSE IF ArrIncludes(placeholderTypes, "SUBTITLE") THEN "sectionHeader"
      ELSE IF Len(placeholderTypes) = 0 THEN "blank"
      ELSE "other"

\* ContentMatcher.calculateLayoutScore(contentAnalysis, layout) of
\* match-layout.js; its getCategoryScores is the core's, line for line
inlineCalculateLayoutScore(contentAnalysis, layout) ==
  LET placeholderTypes == TypesOf(layout)
      category == inlineGetLayoutCategory(layout)
  IN  Clamp(getCategoryScores(contentAnalysis, category)
            + (IF contentAnalysis.hasTitle /\ ArrIncludes(placeholderTypes, "TITLE") THEN 20 ELSE 0)
            + (IF contentAnalysis.hasBody /\ ArrIncludes(placeholderTypes, "BODY") THEN 15 ELSE 0)
            + (IF contentAnalysis.hasImage /\ ArrIncludes(placeholderTypes, "PICTURE") THEN 10 ELSE 0)
            - (IF ~contentAnalysis.hasTitle /\ ArrIncludes(placeholderTypes, "TITLE") THEN 5 ELSE 0)
            - (IF ~contentAnalysis.hasBody /\ ArrIncludes(placeholderTypes, "BODY") THEN 5 ELSE 0)
            - (IF contentAnalysis.contentLength = "long" /\ category = "titleOnly" THEN 15 ELSE 0)
            - (IF contentAnalysis.contentLength = "short" /\ category = "titleAndTwoColumns" THEN 10 ELSE 0))

\* ContentMatcher.generateReasoning(contentAnalysis, selectedLayout) of
\* match-layout.js
inlineGenerateReasoning(contentAnalysis, selectedLayout) ==
  LET category == inlineGetLayoutCategory(selectedLayout)
      types == TypesOf(selectedLayout)
  IN  (IF contentAnalysis.contentType # "general"
       THEN <<[note |-> "type", contentType |-> contentAnalysis.contentType, category |-> category]>>
       ELSE <<>>)
      \o (IF contentAnalysis.hasTitle /\ ArrIncludes(types, "TITLE") THEN <<[note |-> "title"]>> ELSE <<>>)
      \o (IF contentAnalysis.hasBody /\ ArrIncludes(types, "BODY") THEN <<[note |-> "body"]>> ELSE <<>>)
      \o (IF contentAnalysis.hasImage THEN <<[note |-> "image"]>> ELSE <<>>)
      \o <<[note |-> "score", score |-> selectedLayout.score]>>

\* ContentMatcher.findBestLayout(content, layouts) of match-layout.js over
\* an array or undefined (an array is not flattened); analyzeContent and
\* determineContentType are the core's, line for line
inlineFindBestLayout(content, layouts) ==
  IF ~layouts.def \/ Len(layouts.items) = 0
  THEN [threw |-> TRUE, error |-> "No layouts available", scored |-> <<>>]
  ELSE IF analyzeContentThrows(content)
  THEN [threw |-> TRUE, error |-> "TypeError", scored |-> <<>>]
  ELSE LET contentAnalysis == analyzeContent(content)
           mapped == [i \in 1..Len(layouts.items) |->
                        [layouts.items[i] EXCEPT !.score = inlineCalculateLayoutScore(contentAnalysis, layouts.items[i])]]
           scoredLayouts == SortByScore(mapped, 1, <<>>)
       IN  [threw |-> FALSE,
            scored |-> scoredLayouts,
            bestLayout |-> scoredLayouts[1],
            alternatives |-> Slice13(scoredLayouts),
            contentAnalysis |-> contentAnalysis,
            reasoning |-> inlineGenerateReasoning(contentAnalysis, scoredLayouts[1])]

(* ----------------------------- edit plans ----------------------------- *)
\* placeholdersByType[type], the placeholders of the type in layout order
placeholdersByType(layout, type) ==
  SelectSeq(layout.placeholders, LAMBDA p : p.type = type)

\* content.subtitle, undefined for a content without the field
subtitleOf(content) == IF "subtitle" \in DOMAIN content THEN content.subtitle ELSE Undefined

\* the insertText request of the title: content.title && placeholdersByType.TITLE
titleRequests(layout, content) ==
  IF Truthy(content.title) /\ Len(placeholdersByType(layout, "TITLE")) > 0
  THEN <<[kind |-> "insertText", objectId |-> placeholdersByType(layout, "TITLE")[1].objectId,
          text |-> <<"title", content.title>>]>>
  ELSE <<>>

\* the insertText request of the body: inside content.body &&
\* placeholdersByType.BODY, the text is the bullet list when
\* content.bullets has elements and the body otherwise
bodyRequests(layout, content) ==
  IF content.body.def /\ BodyLength(content.body) > 0 /\ Len(placeholdersByType(layout, "BODY")) > 0
  THEN <<[kind |-> "insertText", objectId |-> placeholdersByType(layout, "BODY")[1].objectId,
          text |-> IF content.bullets.def /\ Len(content.bullets.items) > 0
                   THEN <<"bullets", content.bullets.items>>
                   ELSE <<"body", content.body>>]>>
  ELSE <<>>

\* the insertText request of the subtitle
subtitleRequests(layout, content) ==
  IF Truthy(subtitleOf(content)) /\ Len(placeholdersByType(layout, "SUBTITLE")) > 0
  THEN <<[kind |-> "insertText", objectId |-> placeholdersByType(layout, "SUBTITLE")[1].objectId,
          text |-> <<"subtitle", subtitleOf(content)>>]>>
  ELSE <<>>

\* the replaceImage request
imageRequests(layout, content) ==
  IF Truthy(content.imageUrl) /\ Len(placeholdersByType(layout, "PICTURE")) > 0
  THEN <<[kind |-> "replaceImage", objectId |-> placeholdersByType(layout, "PICTURE")[1].objectId,
          text |-> <<"url", content.imageUrl>>]>>
  ELSE <<>>

\* content.columns.forEach: column index goes to the CONTENT placeholder
\* of the same index, if there is one
columnRequests(layout, content) ==
  LET slots == placeholdersByType(layout, "CONTENT")
      columns == IF content.columns.def THEN content.columns.items ELSE <<>>
      n == IF Len(columns) < Len(slots) THEN Len(columns) ELSE Len(slots)
  IN  [i \in 1..n |-> [kind |-> "insertText", objectId |-> slots[i].objectId,
                       text |-> <<"column", columns[i]>>]]

\* the createSlide request
createSlideRequest(slideId, layout) ==
  [kind |-> "createSlide", objectId |-> slideId, text |-> <<"layout", layout.objectId>>]

\* buildSlideRequests(slideId, layout, content, options) of server.js for
\* options without insertIndex and imageReplaceMethod
buildSlideRequests(slideId, layout, content) ==
  <<createSlideRequest(slideId, layout)>>
  \o titleRequests(layout, content) \o bodyRequests(layout, content)
  \o subtitleRequests(layout, content) \o imageRequests(layout, content)
  \o columnRequests(layout, content)

\* prepareSlideRequests(layout, content, slideId) of complete-workflow.js
prepareSlideRequests(layout, content, slideId) ==
  <<createSlideRequest(slideId, layout)>>
  \o titleRequests(layout, content) \o bodyRequests(layout, content)
  \o subtitleRequests(layout, content) \o imageRequests(layout, content)

\* the requests of createSlideWithContent of the create-slide node: the
\* createSlide request, then prepareContentRequests(layout, content,
\* slideId) for a content without formatting
createSlideWithContentRequests(layout, content, slideId) ==
  <<createSlideRequest(slideId, layout)>>
  \o titleRequests(layout, content) \o bodyRequests(layout, content)
  \o subtitleRequests(layout, content) \o imageRequests(layout, content)
  \o columnRequests(layout, content)

(* ------------------------------ inputs -------------------------------- *)
NoArray == [def |-> FALSE, items |-> <<>>]

Arr(items) == [def |-> TRUE, items |-> items]

NoBody == [def |-> FALSE, str |-> <<>>, fill |-> 0]

Body(s, n) == [def |-> TRUE, str |-> s, fill |-> n]

NoFlag == [def |-> FALSE, val |-> FALSE]

Flag(b) == [def |-> TRUE, val |-> b]

sixBullets == <<"b1", "b2", "b3", "b4", "b5", "b6">>

twoBullets == <<"b1", "b2">>

imageUrlSample == Str(<<"u">>)

\* a content object with every optional field absent
EmptyContent ==
  [title |-> Undefined, body |-> NoBody, imageUrl |-> Undefined, images |-> NoArray,
   bullets |-> NoArray, bulletPoints |-> NoArray, columns |-> NoArray, comparison |-> NoFlag]

NameSamples ==
  {Undefined, Str(<<>>), Str(nmTitleOnly), Str(nmTitleOnlyApi), Str(nmSectionHeader),
   Str(nmSectionHeaderApi), Str(nmTwoColumns), Str(nmTwoColumnsApi), Str(nmBlank),
   Str(nmTitleAndBody), Str(nmBlankSectionHeader), Str(kUnnamedLayout)}

\* placeholder-type arrays of at most n elements
TypeSeqs(n) == UNION {[1..k -> PlaceholderTypes] : k \in 0..n}

TypeOrder == <<"TITLE", "CENTERED_TITLE", "BODY", "CONTENT", "SUBTITLE", "PICTURE">>

Rank(t) == CHOOSE i \in 1..Len(TypeOrder) : TypeOrder[i] = t

\* the arrays of TypeSeqs(n) that list their placeholders in TypeOrder
OrderedTypeSeqs(n) ==
  {s \in TypeSeqs(n) : \A i \in 1..Len(s) : \A j \in i..Len(s) : Rank(s[i]) <= Rank(s[j])}

\* a layout as LayoutAnalyzer.extractLayouts builds it
MkLayout(id, name, types) ==
  [objectId |-> id,
   displayName |-> name,
   placeholders |-> [i \in 1..Len(types) |-> [objectId |-> <<id, i>>, type |-> types[i]]],
   score |-> 0]

\* the placeholder arrays of the scoring runs
OrderedTypes == OrderedTypeSeqs(MaxPlaceholders)

\* <<displayName, placeholder types>> of the layouts of a small presentation
Catalogue ==
  {<<Str(nmTitleAndBody), <<"TITLE", "BODY">>>>,
   <<Str(nmTitleOnly), <<"TITLE">>>>,
   <<Str(nmBlank), <<>>>>,
   <<Str(nmSectionHeader), <<"TITLE", "SUBTITLE">>>>,
   <<Str(nmTwoColumns), <<"TITLE", "BODY", "BODY">>>>,
   <<Str(kUnnamedLayout), <<"PICTURE">>>>}

\* the catalogue entries in the order of the small presentation
CatalogueOrder ==
  <<<<Str(nmBlank), <<>>>>,
    <<Str(nmTitleOnly), <<"TITLE">>>>,
    <<Str(nmTitleAndBody), <<"TITLE", "BODY">>>>,
    <<Str(nmSectionHeader), <<"TITLE", "SUBTITLE">>>>,
    <<Str(nmTwoColumns), <<"TITLE", "BODY", "BODY">>>>,
    <<Str(kUnnamedLayout), <<"PICTURE">>>>>>

\* the layout array of a choice f of catalogue entries, objectId = position
CatalogueLayouts(f) == [i \in DOMAIN f |-> MkLayout(i, f[i][1], f[i][2])]

TitleSamples ==
  {Undefined, Str(<<>>), Str(ttSpaces), Str(ttQ1Strategy), Str(ttAgendaQuote), Str(ttFamousQuote),
   Str(ttChapter), Str(ttNewSection), Str(ttVs), Str(ttThankYou)}

BodySamples ==
  {NoBody, Body(<<>>, 0), Body(bdSpaces, 0), Body(bdPlan, 0), Body(bdAgenda, 0),
   Body(bdApostrophe, 0), Body(bdDoubleQuote, 0), Body(bdPlan, 139), Body(bdPlan, 140), Body(bdPlan, 489),
   Body(bdPlan, 490)}

ArraySamples == {NoArray, Arr(<<>>), Arr(twoBullets), Arr(sixBullets)}

\* the contents of the classifier runs
ClassifyContents ==
  [title : TitleSamples, body : BodySamples, imageUrl : {Undefined, imageUrlSample},
   images : {NoArray, Arr(<<>>), Arr(twoBullets)}, bullets : ArraySamples,
   bulletPoints : ArraySamples, columns : {NoArray, Arr(twoBullets)},
   comparison : {NoFlag, Flag(TRUE)}]

\* the contents of the scoring runs
ScoreContents ==
  [title : {Undefined, Str(ttQ1Strategy), Str(ttAgendaQuote), Str(ttFamousQuote),
            Str(ttChapter), Str(ttVs), Str(ttThankYou)},
   body : {NoBody, Body(bdPlan, 0), Body(bdPlan, 140), Body(bdPlan, 490)},
   imageUrl : {Undefined, imageUrlSample},
   images : {NoArray}, bullets : {NoArray, Arr(sixBullets)},
   bulletPoints : {NoArray}, columns : {NoArray}, comparison : {NoFlag}]

\* the contents of the matching runs
MatchContents ==
  {EmptyContent,
   [EmptyContent EXCEPT !.title = Str(ttQ1Strategy), !.body = Body(bdPlan, 189), !.bullets = Arr(twoBullets)],
   [EmptyContent EXCEPT !.title = Str(ttQ1Strategy), !.body = Body(bdPlan, 490)],
   [EmptyContent EXCEPT !.title = Str(ttQ1Strategy), !.bulletPoints = Arr(sixBullets)],
   [EmptyContent EXCEPT !.imageUrl = imageUrlSample],
   [EmptyContent EXCEPT !.title = Str(ttQ1Strategy), !.imageUrl = imageUrlSample],
   [EmptyContent EXCEPT !.title = Str(ttVs), !.body = Body(bdPlan, 0), !.columns = Arr(twoBullets)],
   [EmptyContent EXCEPT !.title = Str(ttChapter)],
   [EmptyContent EXCEPT !.title = Str(ttFamousQuote), !.body = Body(bdDoubleQuote, 0)],
   [EmptyContent EXCEPT !.title = Str(ttAgendaQuote), !.body = Body(bdPlan, 0)],
   [EmptyContent EXCEPT !.title = Str(ttThankYou), !.imageUrl = imageUrlSample, !.body = Body(bdPlan, 0)]}

\* the contents with any subset of the optional fields absent
PartialContents ==
  [title : {Undefined, Str(ttQ1Strategy)}, body : {NoBody, Body(bdPlan, 0)},
   imageUrl : {Undefined, imageUrlSample}, images : {NoArray, Arr(twoBullets)},
   bullets : {NoArray, Arr(twoBullets)}, bulletPoints : {NoArray, Arr(sixBullets)},
   columns : {NoArray, Arr(twoBullets)}, comparison : {NoFlag, Flag(TRUE)}]

\* contents whose title is not a string, such as {title: 42}
MalformedContents ==
  {[EmptyContent EXCEPT !.title = NotAString],
   [EmptyContent EXCEPT !.title = NotAString, !.body = Body(bdPlan, 0)]}

\* the options.customWeights of the requests: none, and weights under the
\* names of the README's CUSTOM_WEIGHTS
WeightSamples ==
  {NoWeights, Weights({<<"titleMatch", 30>>}), Weights({<<"titleMatch", 0>>, <<"bodyMatch", 25>>})}

\* the req.body of the /api/match-layout requests
RequestBodies ==
  {[hasContent |-> FALSE, content |-> EmptyContent, layouts |-> NoArray, customWeights |-> NoWeights],
   [hasContent |-> TRUE, content |-> EmptyContent, layouts |-> Arr(<<>>), customWeights |-> NoWeights]}
  \cup
  [hasContent : {TRUE},
   content : {[EmptyContent EXCEPT !.title = Str(ttQ1Strategy), !.body = Body(bdPlan, 0)]},
   layouts : {Arr(<<MkLayout(1, Str(nmBlank), <<>>), MkLayout(2, Str(nmTitleAndBody), <<"TITLE", "BODY">>)>>)},
   customWeights : WeightSamples]

\* the req.body of the requests of the service runs: a content, the first
\* k layouts of the small presentation, and optional customWeights
ApiRequests ==
  [hasContent : {TRUE},
   content : {[EmptyContent EXCEPT !.title = Str(ttQ1Strategy), !.body = Body(bdPlan, 0)],
              [EmptyContent EXCEPT !.title = Str(ttQ1Strategy), !.imageUrl = imageUrlSample],
              [EmptyContent EXCEPT !.title = Str(ttChapter)],
              [EmptyContent EXCEPT !.title = Str(ttVs), !.body = Body(bdPlan, 0), !.columns = Arr(twoBullets)],
              [EmptyContent EXCEPT !.imageUrl = imageUrlSample]},
   layouts : {Arr(CatalogueLayouts(SubSeq(CatalogueOrder, 1, k))) :
                k \in {n \in 0..MaxLayouts : n <= Len(CatalogueOrder)}},
   customWeights : WeightSamples]

\* the contents of the comparison runs
InlineContents ==
  {EmptyContent,
   [EmptyContent EXCEPT !.title = Str(ttQ1Strategy), !.body = Body(bdPlan, 0)],
   [EmptyContent EXCEPT !.title = Str(ttQ1Strategy), !.body = Body(bdPlan, 490)],
   [EmptyContent EXCEPT !.title = Str(ttChapter)],
   [EmptyContent EXCEPT !.imageUrl = imageUrlSample],
   [EmptyContent EXCEPT !.title = NotAString]}

(* ------------------------- raw presentations -------------------------- *)
\* presentation.layouts is undefined, null or another falsy value
NoLayoutsField == [kind |-> "falsy", items |-> <<>>]

\* presentation.layouts is an array of raw layouts
LayoutsArray(items) == [kind |-> "array", items |-> items]

\* presentation.layouts is a truthy value without forEach, such as {} or 1
LayoutsObject == [kind |-> "object", items |-> <<>>]

\* the presentation argument is undefined or null
NoPresentation == [def |-> FALSE, layouts |-> NoLayoutsField]

Presentation(layoutsField) == [def |-> TRUE, layouts |-> layoutsField]

NoPlaceholder == [def |-> FALSE, type |-> "NONE", index |-> 0, parentObjectId |-> "none"]

Placeholder(type) == [def |-> TRUE, type |-> type, index |-> 0, parentObjectId |-> "master"]

NoShape == [def |-> FALSE, placeholder |-> NoPlaceholder]

Shape(placeholder) == [def |-> TRUE, placeholder |-> placeholder]

NoSize == [def |-> FALSE, width |-> 0, height |-> 0]

Size(w, h) == [def |-> TRUE, width |-> w, height |-> h]

NoTransform == [def |-> FALSE, translateX |-> 0, translateY |-> 0]

Transform(x, y) == [def |-> TRUE, translateX |-> x, translateY |-> y]

\* the kinds of page element of the extraction runs: an image, a text box
\* that is no placeholder, and placeholders with and without a size
ElementKinds == {"image", "textBox", "title", "body", "unsizedSubtitle"}

\* a page element of the given kind
MkElement(id, kind) ==
  [objectId |-> id,
   shape |-> IF kind = "image" THEN NoShape
             ELSE IF kind = "textBox" THEN Shape(NoPlaceholder)
             ELSE IF kind = "title" THEN Shape(Placeholder("TITLE"))
             ELSE IF kind = "body" THEN Shape(Placeholder("BODY"))
             ELSE Shape(Placeholder("SUBTITLE")),
   size |-> IF kind = "unsizedSubtitle" THEN NoSize ELSE Size(3, 2),
   transform |-> Transform(1, 0)]

NoProperties == [def |-> FALSE, displayName |-> Undefined]

Properties(displayName) == [def |-> TRUE, displayName |-> displayName]

PropertiesSamples ==
  {NoProperties, Properties(Undefined), Properties(Str(<<>>)), Properties(Str(nmTitleOnly))}

\* optional arrays of at most n page-element kinds
KindArrays(n) == {NoArray} \cup {Arr(s) : s \in UNION {[1..k -> ElementKinds] : k \in 0..n}}

\* a raw layout of the presentations.get response
MkRawLayout(id, properties, kinds) ==
  [objectId |-> id,
   layoutProperties |-> properties,
   pageElements |-> IF kinds.def
                    THEN Arr([j \in 1..Len(kinds.items) |-> MkElement(<<id, j>>, kinds.items[j])])
                    ELSE NoArray]

\* <<layoutProperties, page-element kinds>> of the raw layouts of a small
\* presentation
RawCatalogue ==
  {<<Properties(Str(nmTitleAndBody)), Arr(<<"title", "image", "body">>)>>,
   <<Properties(Str(nmBlank)), NoArray>>,
   <<NoProperties, Arr(<<"textBox">>)>>,
   <<Properties(Str(nmSectionHeader)), Arr(<<"title", "unsizedSubtitle">>)>>}

(* ------------- complete-workflow.js: inline ContentMatcher ------------ *)
kComparison == <<"c", "o", "m", "p", "a", "r", "i", "s", "o", "n">>
kSectionU == <<"S", "E", "C", "T", "I", "O", "N">>
kTwoU == <<"T", "W", "O">>

\* ContentMatcher.determineContentType(content) of complete-workflow.js
workflowDetermineContentType(content) ==
  LET title == ToLowerCase(IF Truthy(content.title) THEN content.title.str ELSE <<>>)
      body == ToLowerCase(IF content.body.def THEN content.body.str ELSE <<>>)
      hasBodyText == content.body.def /\ BodyLength(content.body) > 0
  IN  IF Includes(title, kAgenda) THEN "agenda"
      ELSE IF Includes(title, kQuote) \/ ArrIncludes(body, "\"") THEN "quote"
      ELSE IF Includes(title, kSection) THEN "section"
      ELSE IF Truthy(content.imageUrl) /\ ~hasBodyText THEN "image-focused"
      ELSE IF content.bullets.def /\ Len(content.bullets.items) > 3 THEN "list-heavy"
      ELSE IF Includes(title, kVs) \/ Includes(title, kComparison) THEN "comparison"
      ELSE "general"

\* ContentMatcher.analyzeContent(content) of complete-workflow.js, for a
\* content whose title and body are strings or absent
workflowAnalyzeContent(content) ==
  LET bodyLen == IF content.body.def THEN BodyLength(content.body) ELSE 0
  IN  [hasTitle |-> Truthy(content.title) /\ TrimNonEmpty(content.title.str),
       hasBody |-> bodyLen > 0 /\ (TrimNonEmpty(content.body.str) \/ content.body.fill > 0),
       hasImage |-> Truthy(content.imageUrl)
                    \/ (content.images.def /\ Len(content.images.items) > 0),
       hasBullets |-> content.bullets.def /\ Len(content.bullets.items) > 0,
       contentLength |-> IF bodyLen > 300 THEN "long" ELSE "short",
       contentType |-> workflowDetermineContentType(content)]

\* the score of the inline calculateLayoutScore before Math.max(0, score)
workflowRawScore(analysis, layout) ==
  LET placeholders == TypesOf(layout)
      displayName == ToUpperCase(layout.displayName.str)
  IN  30
      + (IF analysis.hasTitle /\ ArrIncludes(placeholders, "TITLE") THEN 25
         ELSE IF analysis.hasTitle THEN -10 ELSE 0)
      + (IF analysis.hasBody /\ ArrIncludes(placeholders, "BODY") THEN 20
         ELSE IF analysis.hasBody THEN -10 ELSE 0)
      + (IF analysis.hasImage /\ ArrIncludes(placeholders, "PICTURE") THEN 15 ELSE 0)
      + (IF analysis.contentType = "section" /\ Includes(displayName, kSectionU) THEN 20 ELSE 0)
      + (IF analysis.contentType = "comparison" /\ Includes(displayName, kTwoU) THEN 15 ELSE 0)

\* ContentMatcher.calculateLayoutScore(analysis, layout) of complete-workflow.js
workflowCalculateLayoutScore(analysis, layout) ==
  LET score == workflowRawScore(analysis, layout)
  IN  IF score > 0 THEN score ELSE 0

\* the confidence executeCompleteWorkflow reports for a selected score
workflowConfidence(score) ==
  IF score > 70 THEN "high" ELSE IF score > 40 THEN "medium" ELSE "low"

\* the placeholder object the inline extractPlaceholders pushes
workflowPlaceholderOf(placeholder) ==
  [objectId |-> placeholder.objectId, type |-> placeholder.type, index |-> placeholder.index]

\* LayoutAnalyzer.extractLayouts(presentation) of complete-workflow.js: the
\* layouts of the core extractLayouts with the three-field placeholders
workflowExtractLayouts(presentation) ==
  LET core == extractLayouts(presentation)
  IN  [core EXCEPT !.layouts =
         [i \in 1..Len(core.layouts) |->
            [core.layouts[i] EXCEPT !.placeholders =
               [j \in 1..Len(core.layouts[i].placeholders) |->
                  workflowPlaceholderOf(core.layouts[i].placeholders[j])]]]]

\* ContentMatcher.generateReasoning(analysis, layout) of
\* complete-workflow.js, as the parts joined with ' | '
workflowGenerateReasoning(analysis, layout) ==
  (IF analysis.hasTitle THEN <<"Has title content">> ELSE <<>>)
  \o (IF analysis.hasBody THEN <<"Has body content">> ELSE <<>>)
  \o (IF analysis.hasImage THEN <<"Has image content">> ELSE <<>>)
  \o <<<<"Content type", analysis.contentType>>, <<"Layout", layout.displayName>>,
       <<"Score", layout.score>>>>

\* ContentMatcher.findBestLayout(content, layouts) of complete-workflow.js
workflowFindBestLayout(content, layouts) ==
  IF Len(layouts) = 0
  THEN [threw |-> TRUE, error |-> "No layouts available"]
  ELSE IF analyzeContentThrows(content)
  THEN [threw |-> TRUE, error |-> "TypeError"]
  ELSE LET analysis == workflowAnalyzeContent(content)
           scoredLayouts == [i \in 1..Len(layouts) |->
                               [layouts[i] EXCEPT !.score =
                                  workflowCalculateLayoutScore(analysis, layouts[i])]]
           best == SortByScore(scoredLayouts, 1, <<>>)[1]
       IN  [threw |-> FALSE, error |-> "", bestLayout |-> best, contentAnalysis |-> analysis,
            reasoning |-> workflowGenerateReasoning(analysis, best)]

(* ------------------------- workflow inputs ---------------------------- *)
\* the display names the inline extractLayouts yields: a falsy name is
\* replaced by 'Unnamed Layout'
WorkflowNames == NameSamples \ {Undefined, Str(<<>>)}

\* the contents of the workflow scoring runs
WorkflowContents ==
  [title : {Undefined, Str(ttQ1Strategy), Str(ttNewSection), Str(ttVs)},
   body : {NoBody, Body(<<>>, 0), Body(bdPlan, 0), Body(bdPlan, 290)},
   imageUrl : {Undefined, imageUrlSample},
   images : {NoArray}, bullets : {NoArray, Arr(twoBullets), Arr(sixBullets)},
   bulletPoints : {NoArray}, columns : {NoArray}, comparison : {NoFlag}]

\* the contents of the runs of executeCompleteWorkflow: a truthy $json.content
WorkflowRunContents ==
  [title : {Undefined, Str(ttQ1Strategy), Str(ttNewSection), NotAString},
   body : {NoBody, Body(bdPlan, 0)},
   imageUrl : {Undefined, imageUrlSample},
   images : {NoArray}, bullets : {NoArray, Arr(twoBullets)},
   bulletPoints : {NoArray}, columns : {NoArray}, comparison : {NoFlag}]

\* the contents of the edit plan runs: with and without a title, a body
\* text, an image and a bullet list
PlanContents ==
  [title : {Undefined, Str(ttQ1Strategy)},
   body : {NoBody, Body(<<>>, 0), Body(bdPlan, 0)},
   imageUrl : {Undefined, imageUrlSample},
   images : {NoArray}, bullets : {NoArray, Arr(<<>>), Arr(twoBullets)},
   bulletPoints : {NoArray}, columns : {NoArray, Arr(<<"c1", "c2">>)}, comparison : {NoFlag}]

\* the values `batch_${Date.now()}_${Math.random()...}` can take in one
\* run of Prepare Batch: each evaluation reads the clock and draws anew
BatchIds == {"batch_1", "batch_2"}

(* --------------------------- batch requests --------------------------- *)
MaxSlides == 3

\* slides[i] is null or undefined
NoSlide == [def |-> FALSE, hasContent |-> FALSE, content |-> EmptyContent]

\* a slides[i] object without a content
EmptySlide == [def |-> TRUE, hasContent |-> FALSE, content |-> EmptyContent]

\* a slides[i] object with the content
Slide(content) == [def |-> TRUE, hasContent |-> TRUE, content |-> content]

\* the slide entries of the batch runs
SlideSamples ==
  {EmptySlide,
   Slide([EmptyContent EXCEPT !.title = Str(ttQ1Strategy), !.body = Body(bdPlan, 0)]),
   Slide([EmptyContent EXCEPT !.title = Str(ttQ1Strategy), !.bullets = Arr(twoBullets)])}

\* no batch request has been received
NoBatchRequest == [presentationId |-> FALSE, accessToken |-> FALSE, slides |-> NoArray]

\* the presentation the Slides API returns for the deck of the batch runs
deckPresentation ==
  Presentation(LayoutsArray(
    <<MkRawLayout(1, Properties(Str(nmBlank)), NoArray),
      MkRawLayout(2, Properties(Str(nmTitleAndBody)), Arr(<<"title", "image", "body">>)),
      MkRawLayout(3, Properties(Str(nmSectionHeader)), Arr(<<"title", "unsizedSubtitle">>))>>))

\* what client.getPresentation can resolve to: a presentation without
\* layouts, or the deck
FetchedPresentations == {Presentation(NoLayoutsField), Presentation(LayoutsArray(<<>>)), deckPresentation}

(* ------------------------------ state --------------------------------- *)
VARIABLES
  SCORING_WEIGHTS,    \* the static property ContentMatcher.SCORING_WEIGHTS
  response,           \* the last response of POST /api/match-layout
  request,            \* the req.body of the last POST /api/match-layout
  inbox,              \* the req.body of the requests clients may send
  history,            \* the results of the earlier runs on these arguments
                      \* and the SCORING_WEIGHTS they ran under
  presentation,       \* the presentation argument of extractLayouts
  extracted,          \* what LayoutAnalyzer.extractLayouts returned or threw
  content,            \* the content argument of the run
  layouts,            \* the layouts argument of the run (an optional array)
  pc,                 \* how far the run has come
  contentAnalysis,    \* what analyzeContent returned
  layoutCategory,     \* the local category of calculateLayoutScore
  categoryScores,     \* the local categoryScores of calculateLayoutScore
  layoutScore,        \* what calculateLayoutScore returned
  scoredLayouts,      \* the scoredLayouts array of findBestLayout
  matchResult,        \* what findBestLayout returned or threw
  analyzerCategories, \* the local category of each iteration of categorizeLayouts
  categorized,        \* what LayoutAnalyzer.categorizeLayouts returned
  layoutStats,        \* what LayoutAnalyzer.getLayoutStats returned
  matcherCategories,  \* ContentMatcher.getLayoutCategory of each layout
  inlineResult,       \* what the inline findBestLayout of match-layout.js returned or threw
  batchRequest,       \* the req.body of POST /api/create-slides-batch
  results,            \* the results object of the batch handler
  loopIndex,          \* the loop variable i of the batch handler
  requests,           \* the requests array of the slide being created
  calls,              \* the Slides API calls issued so far, in order
  batchResponse,      \* the response of POST /api/create-slides-batch
  workflow,           \* the workflow object of executeCompleteWorkflow
  workflowResult,     \* what executeCompleteWorkflow returned
  batchItems,         \* the items the node Prepare Batch returned
  slideItems,         \* the items the node Create Individual Slide has returned
  aggregateResult     \* what the node Aggregate Results returned

vars == <<SCORING_WEIGHTS, response, request, inbox, history, presentation, extracted, content, layouts, pc, contentAnalysis, layoutCategory, categoryScores, layoutScore,
          scoredLayouts, matchResult, analyzerCategories, categorized, layoutStats,
          matcherCategories,
          inlineResult, batchRequest, results, loopIndex, requests, calls, batchResponse,
          workflow, workflowResult, batchItems, slideItems, aggregateResult>>

\* the state of the inline copies and of the slide-creation flows
flowVars == <<inlineResult, batchRequest, results, loopIndex, requests, calls, batchResponse,
              workflow, workflowResult, batchItems, slideItems, aggregateResult>>

\* the state of the batch handler
batchVars == <<batchRequest, results, loopIndex, requests, calls, batchResponse>>

None == <<>>

\* executeCompleteWorkflow has not been called
NoWorkflow == [step |-> 0, status |-> "none"]

\* layouts is an array of at most MaxLayouts catalogue layouts
IsCatalogueArray ==
  \E k \in 0..MaxLayouts : \E f \in [1..k -> Catalogue] : layouts = Arr(CatalogueLayouts(f))

\* layouts is an array of one layout of at most MaxPlaceholders placeholders
IsWideLayout ==
  \E n \in NameSamples : \E t \in TypeSeqs(MaxPlaceholders) : layouts = Arr(<<MkLayout(1, n, t)>>)

\* the same with the placeholders listed in TypeOrder
IsOrderedLayout ==
  \E n \in NameSamples : \E t \in OrderedTypes : layouts = Arr(<<MkLayout(1, n, t)>>)

\* presentation is absent, or its layouts field is absent, not an array,
\* one raw layout of at most MaxPlaceholders page elements, or an array of
\* at most MaxLayouts raw catalogue layouts
IsRawPresentation ==
  \/ presentation \in {NoPresentation, Presentation(NoLayoutsField), Presentation(LayoutsObject)}
  \/ \E p \in PropertiesSamples : \E e \in KindArrays(MaxPlaceholders) :
       presentation = Presentation(LayoutsArray(<<MkRawLayout(1, p, e)>>))
  \/ \E k \in 0..MaxLayouts : \E f \in [1..k -> RawCatalogue] :
       presentation = Presentation(LayoutsArray([i \in 1..k |-> MkRawLayout(i, f[i][1], f[i][2])]))

\* layouts is an array of at most MaxPartialLayouts catalogue layouts
IsShortCatalogueArray ==
  \E k \in 0..MaxPartialLayouts : \E f \in [1..k -> Catalogue] : layouts = Arr(CatalogueLayouts(f))

\* layouts is the first k layouts of the small presentation, k <= MaxLayouts
IsCataloguePrefix ==
  \E k \in 0..MaxLayouts :
    k <= Len(CatalogueOrder) /\ layouts = Arr(CatalogueLayouts(SubSeq(CatalogueOrder, 1, k)))

\* layouts is an array of one layout as the inline extractLayouts of
\* complete-workflow.js builds it
IsWorkflowLayout ==
  \E n \in WorkflowNames : \E t \in OrderedTypes : layouts = Arr(<<MkLayout(1, n, t)>>)

\* layouts is the layout selected for an edit plan: ordered placeholders
\* under one display name, which no plan builder reads
IsPlanLayout ==
  \E t \in OrderedTypes : layouts = Arr(<<MkLayout(1, Str(nmTitleAndBody), t)>>)

\* layouts is a layout named 'Title Only' of ordered placeholders, followed
\* by a catalogue layout
IsTitleOnlyPair ==
  \E t \in OrderedTypes : \E c \in Catalogue :
    layouts = Arr(<<MkLayout(1, Str(nmTitleOnly), t), MkLayout(2, c[1], c[2])>>)

\* batchRequest is a req.body with or without presentationId and
\* accessToken, and with no slides array or one of at most MaxSlides entries
IsBatchRequest ==
  \E id \in BOOLEAN : \E token \in BOOLEAN :
    \/ batchRequest = [presentationId |-> id, accessToken |-> token, slides |-> NoArray]
    \/ \E k \in 0..MaxSlides : \E s \in [1..k -> SlideSamples] :
         /\ id /\ token
         /\ batchRequest = [presentationId |-> id, accessToken |-> token, slides |-> Arr(s)]
    \/ \E s \in SlideSamples :
         batchRequest = [presentationId |-> id, accessToken |-> token, slides |-> Arr(<<s, NoSlide>>)]

\* nothing has run yet
Fresh ==
  /\ pc = "start"
  /\ SCORING_WEIGHTS = NoWeights
  /\ response = None
  /\ request = None
  /\ history = <<>>
  /\ extracted = None
  /\ contentAnalysis = None
  /\ layoutCategory = "none"
  /\ categoryScores = -1
  /\ layoutScore = -1
  /\ scoredLayouts = None
  /\ matchResult = None
  /\ analyzerCategories = None
  /\ categorized = None
  /\ layoutStats = None
  /\ matcherCategories = None
  /\ inlineResult = None
  /\ results = None
  /\ loopIndex = 0
  /\ requests = None
  /\ workflow = NoWorkflow
  /\ workflowResult = None
  /\ batchItems = <<>>
  /\ slideItems = <<>>
  /\ aggregateResult = None
  /\ calls = <<>>
  /\ batchResponse = None

(* ----------------------------- actions -------------------------------- *)
\* a findBestLayout that adds one point per entry of
\* ContentMatcher.SCORING_WEIGHTS to the score of the best layout
FindBestLayoutWeighted ==
  /\ pc \in {"start", "again"}
  /\ matchResult' =
       LET result == findBestLayout(content, layouts)
       IN  IF result.threw THEN result
           ELSE [result EXCEPT !.bestLayout.score = Clamp(@ + Cardinality(SCORING_WEIGHTS.entries))]
  /\ scoredLayouts' = matchResult'.scored
  /\ pc' = IF matchResult'.threw THEN "failed" ELSE "done"
  /\ UNCHANGED flowVars
  /\ UNCHANGED <<SCORING_WEIGHTS, response, request, inbox, history, presentation, extracted, content, layouts,
                 contentAnalysis, layoutCategory, categoryScores, layoutScore,
                 analyzerCategories, categorized, layoutStats, matcherCategories>>

\* a call of ContentMatcher.findBestLayout(content, layouts)
FindBestLayout ==
  /\ pc \in {"start", "again"}
  /\ matchResult' = findBestLayout(content, layouts)
  /\ scoredLayouts' = matchResult'.scored
  /\ layouts' = layoutsAfter(content, layouts)
  /\ pc' = IF matchResult'.threw THEN "failed" ELSE "done"
  /\ UNCHANGED flowVars
  /\ UNCHANGED <<SCORING_WEIGHTS, response, request, inbox, history, presentation, extracted, content,
                 contentAnalysis, layoutCategory, categoryScores, layoutScore,
                 analyzerCategories, categorized, layoutStats, matcherCategories>>

\* a call of ContentMatcher.analyzeContent(content)
AnalyzeContent ==
  /\ pc = "start"
  /\ contentAnalysis' = IF analyzeContentThrows(content) THEN None ELSE analyzeContent(content)
  /\ pc' = IF analyzeContentThrows(content) THEN "threw" ELSE "analyzed"
  /\ UNCHANGED flowVars
  /\ UNCHANGED <<SCORING_WEIGHTS, response, request, inbox, history, presentation, extracted, content, layouts,
                 layoutCategory, categoryScores, layoutScore, scoredLayouts, matchResult,
                 analyzerCategories, categorized, layoutStats, matcherCategories>>

\* a call of ContentMatcher.calculateLayoutScore(contentAnalysis, layout)
CalculateLayoutScore ==
  /\ pc = "analyzed"
  /\ layouts.def /\ Len(layouts.items) = 1
  /\ layoutCategory' = getLayoutCategory(layouts.items[1])
  /\ categoryScores' = getCategoryScores(contentAnalysis, layoutCategory')
  /\ layoutScore' = calculateLayoutScore(contentAnalysis, layouts.items[1])
  /\ pc' = "scored"
  /\ UNCHANGED flowVars
  /\ UNCHANGED <<SCORING_WEIGHTS, response, request, inbox, history, presentation, extracted, content, layouts,
                 contentAnalysis, scoredLayouts, matchResult, analyzerCategories, categorized,
                 layoutStats, matcherCategories>>

\* a call of LayoutAnalyzer.categorizeLayouts(layouts)
CategorizeLayouts ==
  /\ pc = "start"
  /\ layouts.def
  /\ analyzerCategories' =
       [i \in 1..Len(layouts.items) |->
          determineLayoutCategory(TypesOf(layouts.items[i]), layouts.items[i].displayName)]
  /\ categorized' = categorizeLayouts(layouts.items)
  /\ pc' = "categorized"
  /\ UNCHANGED flowVars
  /\ UNCHANGED <<SCORING_WEIGHTS, response, request, inbox, history, presentation, extracted, content, layouts,
                 contentAnalysis, layoutCategory, categoryScores, layoutScore, scoredLayouts,
                 matchResult, layoutStats, matcherCategories>>

\* a call of LayoutAnalyzer.getLayoutStats(layouts)
GetLayoutStats ==
  /\ pc = "categorized"
  /\ layoutStats' = getLayoutStats(layouts.items)
  /\ pc' = "counted"
  /\ UNCHANGED flowVars
  /\ UNCHANGED <<SCORING_WEIGHTS, response, request, inbox, history, presentation, extracted, content, layouts,
                 contentAnalysis, layoutCategory, categoryScores, layoutScore, scoredLayouts,
                 matchResult, analyzerCategories, categorized, matcherCategories>>

\* ContentMatcher.getLayoutCategory(layout) for each layout, as the scoring
\* of a matching run over the same layouts calls it
GetLayoutCategory ==
  /\ pc = "counted"
  /\ matcherCategories' = [i \in 1..Len(layouts.items) |-> getLayoutCategory(layouts.items[i])]
  /\ pc' = "done"
  /\ UNCHANGED flowVars
  /\ UNCHANGED <<SCORING_WEIGHTS, response, request, inbox, history, presentation, extracted, content, layouts,
                 contentAnalysis, layoutCategory, categoryScores, layoutScore, scoredLayouts,
                 matchResult, analyzerCategories, categorized, layoutStats>>

\* a call of LayoutAnalyzer.extractLayouts(presentation)
ExtractLayouts ==
  /\ pc = "start"
  /\ extracted' = extractLayouts(presentation)
  /\ pc' = IF extracted'.threw THEN "failed" ELSE "extracted"
  /\ UNCHANGED flowVars
  /\ UNCHANGED <<SCORING_WEIGHTS, response, request, inbox, history, presentation, content, layouts,
                 contentAnalysis, layoutCategory, categoryScores, layoutScore, scoredLayouts,
                 matchResult, analyzerCategories, categorized, layoutStats, matcherCategories>>

\* the handler of POST /api/match-layout, serving a request between two
\* matching runs
ApiMatchLayout ==
  /\ pc \in {"start", "again"}
  /\ \E body \in inbox :
       /\ request' = body
       /\ response' = apiMatchLayoutResponse(body)
       /\ SCORING_WEIGHTS' = apiMatchLayoutWeights(body, SCORING_WEIGHTS)
  /\ UNCHANGED flowVars
  /\ UNCHANGED <<inbox, history, presentation, extracted, content, layouts, pc, contentAnalysis,
                 layoutCategory, categoryScores, layoutScore, scoredLayouts, matchResult,
                 analyzerCategories, categorized, layoutStats, matcherCategories>>

\* the caller keeps the result of the finished run, with the value
\* ContentMatcher.SCORING_WEIGHTS had, and prepares another run
\* on the same content and layouts
RunAgain ==
  /\ pc \in {"done", "failed"}
  /\ Len(history) < MaxRuns
  /\ history' = Append(history, [result |-> matchResult, weights |-> SCORING_WEIGHTS])
  /\ pc' = "again"
  /\ UNCHANGED flowVars
  /\ UNCHANGED <<SCORING_WEIGHTS, response, request, inbox, presentation, extracted, content, layouts,
                 contentAnalysis, layoutCategory, categoryScores, layoutScore, scoredLayouts,
                 matchResult, analyzerCategories, categorized, layoutStats, matcherCategories>>

\* the inline analyzeContent(content) of complete-workflow.js
WorkflowAnalyzeContent ==
  /\ pc = "start"
  /\ contentAnalysis' = workflowAnalyzeContent(content)
  /\ pc' = "analyzed"
  /\ UNCHANGED flowVars
  /\ UNCHANGED <<SCORING_WEIGHTS, response, request, inbox, history, presentation, extracted, content, layouts,
                 layoutCategory, categoryScores, layoutScore, scoredLayouts, matchResult,
                 analyzerCategories, categorized, layoutStats, matcherCategories>>

\* the inline calculateLayoutScore(analysis, layout) of complete-workflow.js
WorkflowCalculateLayoutScore ==
  /\ pc = "analyzed"
  /\ layouts.def /\ Len(layouts.items) = 1
  /\ layoutScore' = workflowCalculateLayoutScore(contentAnalysis, layouts.items[1])
  /\ pc' = "scored"
  /\ UNCHANGED flowVars
  /\ UNCHANGED <<SCORING_WEIGHTS, response, request, inbox, history, presentation, extracted, content, layouts,
                 contentAnalysis, layoutCategory, categoryScores, scoredLayouts, matchResult,
                 analyzerCategories, categorized, layoutStats, matcherCategories>>

\* a call of the inline ContentMatcher.findBestLayout(content, layouts) of
\* match-layout.js on the arguments of the finished core run
InlineFindBestLayout ==
  /\ pc \in {"done", "failed"}
  /\ inlineResult' = inlineFindBestLayout(content, layouts)
  /\ pc' = "compared"
  /\ UNCHANGED batchVars
  /\ UNCHANGED <<workflow, workflowResult, batchItems, slideItems, aggregateResult>>
  /\ UNCHANGED <<SCORING_WEIGHTS, response, request, inbox, history, presentation, extracted, content,
                 layouts, contentAnalysis, layoutCategory, categoryScores, layoutScore, scoredLayouts,
                 matchResult, analyzerCategories, categorized, layoutStats, matcherCategories>>

(* --------------- POST /api/create-slides-batch, by steps -------------- *)
\* what the batch handler leaves alone
matcherVars ==
  <<SCORING_WEIGHTS, response, request, inbox, history, content, layouts, contentAnalysis,
    layoutCategory, categoryScores, layoutScore, scoredLayouts, analyzerCategories, categorized,
    layoutStats, matcherCategories, inlineResult, workflow, workflowResult,
    batchItems, slideItems, aggregateResult>>

\* the 500 response of the outer catch
batchError(message) == [status |-> 500, success |-> FALSE, error |-> message]

\* generateUniqueId() for the slide of the index: its value depends on the
\* clock and on Math.random and is kept apart by the slide index alone
generateUniqueId(slideIndex) == <<"id", slideIndex>>

\* the handler validates req.body, builds results and calls
\* client.getPresentation
BatchReceive ==
  /\ pc = "start"
  /\ IF ~batchRequest.presentationId \/ ~batchRequest.slides.def \/ ~batchRequest.accessToken
     THEN /\ batchResponse' = [status |-> 400,
                               error |-> "presentationId, slides array, and accessToken are required"]
          /\ pc' = "responded"
          /\ UNCHANGED <<results, calls>>
     ELSE /\ results' = [totalSlides |-> Len(batchRequest.slides.items),
                         successCount |-> 0, failureCount |-> 0, slides |-> <<>>, errors |-> <<>>]
          /\ calls' = Append(calls, <<"getPresentation", 0>>)
          /\ pc' = "fetching"
          /\ UNCHANGED batchResponse
  /\ UNCHANGED <<batchRequest, loopIndex, requests, presentation, extracted, matchResult>>
  /\ UNCHANGED matcherVars

\* client.getPresentation rejects: the outer catch answers 500
BatchFetchFailed ==
  /\ pc = "fetching"
  /\ batchResponse' = batchError("Failed to get presentation")
  /\ pc' = "responded"
  /\ UNCHANGED <<batchRequest, results, loopIndex, requests, calls, presentation, extracted, matchResult>>
  /\ UNCHANGED matcherVars

\* client.getPresentation resolves: the handler extracts the layouts and
\* enters the loop, or throws to the outer catch when there is none
BatchFetched ==
  /\ pc = "fetching"
  /\ presentation' \in FetchedPresentations
  /\ extracted' = extractLayouts(presentation')
  /\ IF extracted'.threw
     THEN /\ batchResponse' = batchError(extracted'.error)
          /\ pc' = "responded"
     ELSE IF Len(extracted'.layouts) = 0
     THEN /\ batchResponse' = batchError("No layouts found in presentation")
          /\ pc' = "responded"
     ELSE /\ pc' = "loop"
          /\ UNCHANGED batchResponse
  /\ loopIndex' = 0
  /\ UNCHANGED <<batchRequest, results, requests, calls, matchResult>>
  /\ UNCHANGED matcherVars

\* the slide entry of the iteration
batchSlide == batchRequest.slides.items[loopIndex + 1]

\* the try block of iteration i throws before batchUpdate: slides[i] is
\* null or undefined, or findBestLayout throws
batchSlideThrows ==
  \/ ~batchSlide.def
  \/ ~batchSlide.hasContent
  \/ findBestLayout(batchSlide.content, Arr(extracted.layouts)).threw

\* a catch block that pushes the error and leaves failureCount as it is
recordFailureUncounted(message) ==
  [results EXCEPT !.errors = Append(@, [slideIndex |-> loopIndex + 1, error |-> message])]

\* results after the catch block of iteration i
recordFailure(message) ==
  [results EXCEPT !.failureCount = @ + 1,
                  !.errors = Append(@, [slideIndex |-> loopIndex + 1, error |-> message])]

\* iteration i up to its await: the slide is matched and its requests are
\* sent with client.batchUpdate, or the catch block records the failure
BatchSlide ==
  /\ pc = "loop"
  /\ loopIndex < Len(batchRequest.slides.items)
  /\ IF batchSlideThrows
     THEN /\ results' = recordFailure(IF batchSlide.def /\ batchSlide.hasContent
                                      THEN findBestLayout(batchSlide.content, Arr(extracted.layouts)).error
                                      ELSE "TypeError")
          /\ loopIndex' = loopIndex + 1
          /\ UNCHANGED <<matchResult, requests, calls, pc>>
     ELSE /\ matchResult' = findBestLayout(batchSlide.content, Arr(extracted.layouts))
          /\ requests' = buildSlideRequests(generateUniqueId(loopIndex + 1), matchResult'.bestLayout,
                                            batchSlide.content)
          /\ calls' = Append(calls, <<"batchUpdate", loopIndex + 1>>)
          /\ pc' = "updating"
          /\ UNCHANGED <<results, loopIndex>>
  /\ UNCHANGED <<batchRequest, batchResponse, presentation, extracted>>
  /\ UNCHANGED matcherVars

\* client.batchUpdate resolves: iteration i records the success
BatchUpdated ==
  /\ pc = "updating"
  /\ results' = [results EXCEPT
       !.successCount = @ + 1,
       !.slides = Append(@, [slideIndex |-> loopIndex + 1,
                             slideId |-> generateUniqueId(loopIndex + 1),
                             layoutUsed |-> matchResult.bestLayout.displayName,
                             elementsCreated |-> Len(requests) - 1,
                             confidence |-> calculateConfidence(matchResult.bestLayout.score,
                                                                Len(extracted.layouts))])]
  /\ loopIndex' = loopIndex + 1
  /\ pc' = "loop"
  /\ UNCHANGED <<batchRequest, requests, calls, batchResponse, presentation, extracted, matchResult>>
  /\ UNCHANGED matcherVars

\* a handler without the inner try: a rejected client.batchUpdate reaches
\* the outer catch, which answers 500 and ends the loop
BatchUpdateFailedAborts ==
  /\ pc = "updating"
  /\ batchResponse' = batchError("Failed to batch update")
  /\ pc' = "responded"
  /\ UNCHANGED <<batchRequest, results, loopIndex, requests, calls, presentation, extracted, matchResult>>
  /\ UNCHANGED matcherVars

\* client.batchUpdate rejects: the catch block of iteration i records the
\* failure
BatchUpdateFailed ==
  /\ pc = "updating"
  /\ results' = recordFailure("Failed to batch update")
  /\ loopIndex' = loopIndex + 1
  /\ pc' = "loop"
  /\ UNCHANGED <<batchRequest, requests, calls, batchResponse, presentation, extracted, matchResult>>
  /\ UNCHANGED matcherVars

\* a status code that reports a partial success as a failure
batchStatusCodeNoPartial(success, partialSuccess) == IF success THEN 200 ELSE 400

\* the status code of the finished results
batchStatusCode(success, partialSuccess) ==
  IF success THEN 200 ELSE IF partialSuccess THEN 207 ELSE 400

\* after the loop: success, partialSuccess and the response
BatchRespond ==
  /\ pc = "loop"
  /\ loopIndex >= Len(batchRequest.slides.items)
  /\ batchResponse' =
       [status |-> batchStatusCode(results.failureCount = 0,
                                   results.successCount > 0 /\ results.failureCount > 0),
        success |-> results.failureCount = 0,
        partialSuccess |-> results.successCount > 0 /\ results.failureCount > 0,
        results |-> results]
  /\ pc' = "responded"
  /\ UNCHANGED <<batchRequest, results, loopIndex, requests, calls, presentation, extracted, matchResult>>
  /\ UNCHANGED matcherVars

(* ----------- complete-workflow.js: executeCompleteWorkflow ------------ *)
\* what executeCompleteWorkflow leaves alone
workflowIdle ==
  <<SCORING_WEIGHTS, response, request, inbox, history, content, layouts, contentAnalysis,
    layoutCategory, categoryScores, layoutScore, scoredLayouts, analyzerCategories, categorized,
    layoutStats, matcherCategories, inlineResult, batchRequest, results, loopIndex, batchResponse,
    batchItems, slideItems, aggregateResult>>

\* the return value of the catch block: the workflow object as the throw
\* left it
workflowFailure(message) ==
  [success |-> FALSE, workflow |-> workflow, error |-> message]

\* step 1 up to its await: the presentation is requested
WorkflowStart ==
  /\ pc = "start"
  /\ workflow' = [step |-> 1, status |-> "extracting_layouts"]
  /\ calls' = Append(calls, <<"getPresentation", 0>>)
  /\ pc' = "extracting"
  /\ UNCHANGED <<workflowResult, presentation, extracted, matchResult, requests>>
  /\ UNCHANGED workflowIdle

\* the request of the presentation rejects
WorkflowFetchFailed ==
  /\ pc = "extracting"
  /\ workflowResult' = workflowFailure("request failed")
  /\ pc' = "returned"
  /\ UNCHANGED <<workflow, presentation, extracted, matchResult, requests, calls>>
  /\ UNCHANGED workflowIdle

\* the request of the presentation resolves: the layouts are extracted
\* and step 2 begins, or the lack of layouts is thrown
WorkflowFetched ==
  /\ pc = "extracting"
  /\ presentation' \in FetchedPresentations
  /\ extracted' = workflowExtractLayouts(presentation')
  /\ IF extracted'.threw \/ Len(extracted'.layouts) = 0
     THEN /\ workflowResult' = workflowFailure(IF extracted'.threw THEN extracted'.error
                                               ELSE "No layouts found in presentation")
          /\ pc' = "returned"
          /\ UNCHANGED workflow
     ELSE /\ workflow' = [step |-> 2, status |-> "selecting_layout"]
          /\ pc' = "selecting"
          /\ UNCHANGED workflowResult
  /\ UNCHANGED <<matchResult, requests, calls>>
  /\ UNCHANGED workflowIdle

\* step 2 and step 3 up to its await: the layout is selected, the requests
\* are prepared and sent with batchUpdate
WorkflowSelect ==
  /\ pc = "selecting"
  /\ matchResult' = workflowFindBestLayout(content, extracted.layouts)
  /\ IF matchResult'.threw
     THEN /\ workflowResult' = workflowFailure(matchResult'.error)
          /\ pc' = "returned"
          /\ UNCHANGED <<workflow, requests, calls>>
     ELSE /\ workflow' = [step |-> 3, status |-> "creating_slide"]
          /\ requests' = prepareSlideRequests(matchResult'.bestLayout, content, generateUniqueId(1))
          /\ calls' = Append(calls, <<"batchUpdate", 1>>)
          /\ pc' = "creating"
          /\ UNCHANGED workflowResult
  /\ UNCHANGED <<presentation, extracted>>
  /\ UNCHANGED workflowIdle

\* a step 4 that is entered before the batchUpdate is awaited, so that a
\* rejected batchUpdate leaves the workflow object completed
WorkflowCreateFailedCompleted ==
  /\ pc = "creating"
  /\ workflow' = [step |-> 4, status |-> "completed"]
  /\ workflowResult' = [success |-> FALSE, workflow |-> workflow', error |-> "request failed"]
  /\ pc' = "returned"
  /\ UNCHANGED <<presentation, extracted, matchResult, requests, calls>>
  /\ UNCHANGED workflowIdle

\* the batchUpdate rejects
WorkflowCreateFailed ==
  /\ pc = "creating"
  /\ workflowResult' = workflowFailure("request failed")
  /\ pc' = "returned"
  /\ UNCHANGED <<workflow, presentation, extracted, matchResult, requests, calls>>
  /\ UNCHANGED workflowIdle

\* the batchUpdate resolves: step 4 and the return value
WorkflowCreated ==
  /\ pc = "creating"
  /\ workflow' = [step |-> 4, status |-> "completed"]
  /\ workflowResult' = [success |-> TRUE, workflow |-> workflow',
                        slideId |-> generateUniqueId(1),
                        elementsCreated |-> Len(requests) - 1,
                        layoutUsed |-> matchResult.bestLayout.displayName,
                        contentAnalysis |-> matchResult.contentAnalysis,
                        reasoning |-> matchResult.reasoning,
                        confidence |-> workflowConfidence(matchResult.bestLayout.score)]
  /\ pc' = "returned"
  /\ UNCHANGED <<presentation, extracted, matchResult, requests, calls>>
  /\ UNCHANGED workflowIdle

(* ---------------------- edit plans, one per call ---------------------- *)
\* what building an edit plan leaves alone
planIdle ==
  <<SCORING_WEIGHTS, response, request, inbox, history, presentation, extracted, content, layouts,
    contentAnalysis, layoutCategory, categoryScores, layoutScore, scoredLayouts, matchResult,
    analyzerCategories, categorized, layoutStats, matcherCategories, inlineResult, batchRequest,
    results, loopIndex, calls, batchResponse, workflow, workflowResult,
    batchItems, slideItems, aggregateResult>>

\* a call of buildSlideRequests(slideId, layout, content) of server.js
BuildSlideRequests ==
  /\ pc = "start"
  /\ requests' = buildSlideRequests(generateUniqueId(1), layouts.items[1], content)
  /\ pc' = "built"
  /\ UNCHANGED planIdle

\* a call of prepareSlideRequests(layout, content, slideId) of
\* complete-workflow.js
PrepareSlideRequests ==
  /\ pc = "start"
  /\ requests' = prepareSlideRequests(layouts.items[1], content, generateUniqueId(1))
  /\ pc' = "prepared"
  /\ UNCHANGED planIdle

\* the requests createSlideWithContent of the create-slide node sends
CreateSlideWithContent ==
  /\ pc = "start"
  /\ requests' = createSlideWithContentRequests(layouts.items[1], content, generateUniqueId(1))
  /\ pc' = "planned"
  /\ UNCHANGED planIdle

(* ------------- batch-processing.json: the nodes, by steps ------------- *)
\* what the nodes of the batch workflow leave alone
nodeIdle ==
  <<SCORING_WEIGHTS, response, request, inbox, history, presentation, extracted, content, layouts,
    contentAnalysis, layoutCategory, categoryScores, layoutScore, scoredLayouts, matchResult,
    analyzerCategories, categorized, layoutStats, matcherCategories, inlineResult, batchRequest,
    results, loopIndex, requests, calls, batchResponse, workflow, workflowResult>>

\* Prepare Batch throws: no deckId, no slides, or a slide without content
\* or without title and body
prepareBatchThrows ==
  \/ ~batchRequest.presentationId
  \/ ~batchRequest.slides.def
  \/ Len(batchRequest.slides.items) = 0
  \/ \E k \in DOMAIN batchRequest.slides.items :
       LET slide == batchRequest.slides.items[k]
       IN  \/ ~slide.def
           \/ ~slide.hasContent
           \/ (~Truthy(slide.content.title)
               /\ ~(slide.content.body.def /\ BodyLength(slide.content.body) > 0))

\* the node Prepare Batch over $json = {deckId, slides}: one item per
\* slide, the batchId evaluated inside the map callback
PrepareBatch ==
  /\ pc = "start"
  /\ IF prepareBatchThrows
     THEN /\ pc' = "failed"
          /\ UNCHANGED batchItems
     ELSE /\ \E ids \in [DOMAIN batchRequest.slides.items -> BatchIds] :
               batchItems' = [k \in DOMAIN batchRequest.slides.items |->
                                [content |-> batchRequest.slides.items[k].content,
                                 slideIndex |-> k,
                                 totalSlides |-> Len(batchRequest.slides.items),
                                 batchId |-> ids[k]]]
          /\ pc' = "creating"
  /\ UNCHANGED <<slideItems, aggregateResult>>
  /\ UNCHANGED nodeIdle

\* the node Create Individual Slide on the next item: the slide is created
\* or the catch block answers, both passing slideIndex and batchId on
CreateIndividualSlide ==
  /\ pc = "creating"
  /\ Len(slideItems) < Len(batchItems)
  /\ \E success \in BOOLEAN :
       slideItems' = Append(slideItems,
                            [success |-> success,
                             slideIndex |-> batchItems[Len(slideItems) + 1].slideIndex,
                             batchId |-> batchItems[Len(slideItems) + 1].batchId])
  /\ UNCHANGED <<pc, batchItems, aggregateResult>>
  /\ UNCHANGED nodeIdle

\* the node Aggregate Results over the items of Create Individual Slide
AggregateResults ==
  /\ pc = "creating"
  /\ Len(slideItems) = Len(batchItems)
  /\ LET successCount == Cardinality({k \in DOMAIN slideItems : slideItems[k].success})
         failureCount == Cardinality({k \in DOMAIN slideItems : ~slideItems[k].success})
     IN  aggregateResult' =
           [statusCode |-> batchStatusCode(failureCount = 0, successCount > 0 /\ failureCount > 0),
            batchId |-> slideItems[1].batchId,
            totalSlides |-> Len(slideItems),
            successCount |-> successCount,
            failureCount |-> failureCount,
            success |-> failureCount = 0,
            partialSuccess |-> successCount > 0 /\ failureCount > 0]
  /\ pc' = "aggregated"
  /\ UNCHANGED <<batchItems, slideItems>>
  /\ UNCHANGED nodeIdle

(* -------------------------- specifications ---------------------------- *)
\* matching runs: findBestLayout over a content and a layout array
Init ==
  /\ layouts = NoArray \/ IsCatalogueArray
  /\ content \in MatchContents
  /\ presentation = NoPresentation
  /\ inbox = {}
  /\ batchRequest = NoBatchRequest
  /\ Fresh

Next == FindBestLayout

Spec == Init /\ [][Next]_vars

\* classifier runs: analyzeContent over a content
InitClassify ==
  /\ content \in ClassifyContents
  /\ layouts = NoArray
  /\ presentation = NoPresentation
  /\ inbox = {}
  /\ batchRequest = NoBatchRequest
  /\ Fresh

NextClassify == AnalyzeContent

SpecClassify == InitClassify /\ [][NextClassify]_vars

\* scoring runs: analyzeContent, then calculateLayoutScore against one layout
InitScore ==
  /\ IsOrderedLayout
  /\ content \in ScoreContents
  /\ presentation = NoPresentation
  /\ inbox = {}
  /\ batchRequest = NoBatchRequest
  /\ Fresh

NextScore == AnalyzeContent \/ CalculateLayoutScore

SpecScore == InitScore /\ [][NextScore]_vars

\* categorizer runs: both categorizers over a layout array
InitCategorize ==
  /\ content = EmptyContent
  /\ IsWideLayout \/ IsCatalogueArray
  /\ presentation = NoPresentation
  /\ inbox = {}
  /\ batchRequest = NoBatchRequest
  /\ Fresh

NextCategorize == CategorizeLayouts \/ GetLayoutStats \/ GetLayoutCategory

SpecCategorize == InitCategorize /\ [][NextCategorize]_vars

\* extraction runs: extractLayouts over a raw presentation
InitExtract ==
  /\ IsRawPresentation
  /\ content = EmptyContent
  /\ layouts = NoArray
  /\ inbox = {}
  /\ batchRequest = NoBatchRequest
  /\ Fresh

NextExtract == ExtractLayouts

SpecExtract == InitExtract /\ [][NextExtract]_vars

\* permissive runs: analyzeContent or findBestLayout over a partial or a
\* malformed content
InitPartial ==
  /\ content \in PartialContents \cup MalformedContents
  /\ layouts = NoArray \/ IsShortCatalogueArray
  /\ presentation = NoPresentation
  /\ inbox = {}
  /\ batchRequest = NoBatchRequest
  /\ Fresh

NextPartial == AnalyzeContent \/ FindBestLayout

SpecPartial == InitPartial /\ [][NextPartial]_vars

\* service runs: matching runs on the same arguments with /api/match-layout
\* requests served in between
InitServer ==
  /\ content \in MatchContents
  /\ layouts = NoArray \/ IsCataloguePrefix
  /\ presentation = NoPresentation
  /\ inbox = RequestBodies
  /\ batchRequest = NoBatchRequest
  /\ Fresh

NextServer == FindBestLayout \/ ApiMatchLayout \/ RunAgain

SpecServer == InitServer /\ [][NextServer]_vars

\* workflow scoring runs: the inline analyzeContent of complete-workflow.js,
\* then its calculateLayoutScore against one extracted layout
InitWorkflowScore ==
  /\ IsWorkflowLayout
  /\ content \in WorkflowContents
  /\ presentation = NoPresentation
  /\ inbox = {}
  /\ batchRequest = NoBatchRequest
  /\ Fresh

NextWorkflowScore == WorkflowAnalyzeContent \/ WorkflowCalculateLayoutScore

SpecWorkflowScore == InitWorkflowScore /\ [][NextWorkflowScore]_vars

\* request runs: the service answers /api/match-layout requests one after
\* another
InitApi ==
  /\ content = EmptyContent
  /\ layouts = NoArray
  /\ presentation = NoPresentation
  /\ inbox = ApiRequests
  /\ batchRequest = NoBatchRequest
  /\ Fresh

NextApi == ApiMatchLayout

SpecApi == InitApi /\ [][NextApi]_vars

\* comparison runs: the core findBestLayout, then the inline copy of
\* match-layout.js on the same content and layouts
InitInline ==
  /\ content \in InlineContents
  /\ layouts = NoArray \/ IsShortCatalogueArray \/ IsOrderedLayout \/ IsTitleOnlyPair
  /\ presentation = NoPresentation
  /\ inbox = {}
  /\ batchRequest = NoBatchRequest
  /\ Fresh

NextInline == FindBestLayout \/ InlineFindBestLayout

SpecInline == InitInline /\ [][NextInline]_vars

\* batch runs: one POST /api/create-slides-batch request, the Slides API
\* resolving or rejecting each call
InitBatch ==
  /\ IsBatchRequest
  /\ content = EmptyContent
  /\ layouts = NoArray
  /\ presentation = NoPresentation
  /\ inbox = {}
  /\ Fresh

NextBatch ==
  \/ BatchReceive
  \/ BatchFetchFailed
  \/ BatchFetched
  \/ BatchSlide
  \/ BatchUpdated
  \/ BatchUpdateFailed
  \/ BatchRespond

SpecBatch == InitBatch /\ [][NextBatch]_vars

\* runs of executeCompleteWorkflow of complete-workflow.js
InitWorkflow ==
  /\ content \in WorkflowRunContents
  /\ layouts = NoArray
  /\ presentation = NoPresentation
  /\ batchRequest = NoBatchRequest
  /\ inbox = {}
  /\ Fresh

NextWorkflow ==
  \/ WorkflowStart
  \/ WorkflowFetchFailed
  \/ WorkflowFetched
  \/ WorkflowSelect
  \/ WorkflowCreateFailed
  \/ WorkflowCreated

SpecWorkflow == InitWorkflow /\ [][NextWorkflow]_vars

\* edit plan runs: one call of one of the three plan builders on a content
\* and a selected layout
InitPlan ==
  /\ IsPlanLayout
  /\ content \in PlanContents
  /\ presentation = NoPresentation
  /\ batchRequest = NoBatchRequest
  /\ inbox = {}
  /\ Fresh

NextPlan == BuildSlideRequests \/ PrepareSlideRequests \/ CreateSlideWithContent

SpecPlan == InitPlan /\ [][NextPlan]_vars

\* runs of the n8n batch workflow on one webhook request, whose deckId
\* and slides are those of batchRequest
InitNodes ==
  /\ IsBatchRequest
  /\ content = EmptyContent
  /\ layouts = NoArray
  /\ presentation = NoPresentation
  /\ inbox = {}
  /\ Fresh

NextNodes == PrepareBatch \/ CreateIndividualSlide \/ AggregateResults

SpecNodes == InitNodes /\ [][NextNodes]_vars

(* ------------------------------ claims -------------------------------- *)
\* the layout a scoring run scores
ScoredLayout == layouts.items[1]

\* C1: for every content profile and every template, calculateLayoutScore
\* returns an integer s with 0 <= s <= 100.
C1_ScoreInRange == pc = "scored" => layoutScore \in 0..100

\* C1 witness: a scored pair whose additive score is negative, so that the
\* lower clamp decides the result
C1_Witness ==
  /\ pc = "scored"
  /\ rawLayoutScore(contentAnalysis, ScoredLayout) < 0
  /\ layoutScore = 0

\* the (content tag, category) base scores the code yields, row by row; a
\* tag without a row of its own (agenda, closing) reads the general row
C6_Table ==
  [section |-> [titleOnly |-> 30, titleAndBody |-> 20, titleAndTwoColumns |-> 15,
                sectionHeader |-> 40, blank |-> 10, other |-> 0],
   quote |-> [titleOnly |-> 30, titleAndBody |-> 25, titleAndTwoColumns |-> 15,
              sectionHeader |-> 35, blank |-> 10, other |-> 0],
   imageFocused |-> [titleOnly |-> 35, titleAndBody |-> 20, titleAndTwoColumns |-> 15,
                     sectionHeader |-> 20, blank |-> 40, other |-> 0],
   comparison |-> [titleOnly |-> 25, titleAndBody |-> 25, titleAndTwoColumns |-> 40,
                   sectionHeader |-> 20, blank |-> 20, other |-> 0],
   listHeavy |-> [titleOnly |-> 25, titleAndBody |-> 35, titleAndTwoColumns |-> 30,
                  sectionHeader |-> 20, blank |-> 20, other |-> 0],
   general |-> [titleOnly |-> 25, titleAndBody |-> 35, titleAndTwoColumns |-> 15,
                sectionHeader |-> 20, blank |-> 10, other |-> 0]]

\* the row of C6_Table a content tag reads
C6_Row(tag) ==
  IF tag = "section" THEN C6_Table.section
  ELSE IF tag = "quote" THEN C6_Table.quote
  ELSE IF tag = "image-focused" THEN C6_Table.imageFocused
  ELSE IF tag = "comparison" THEN C6_Table.comparison
  ELSE IF tag = "list-heavy" THEN C6_Table.listHeavy
  ELSE C6_Table.general

\* C6 as stated: a known tag paired with a category not listed in its row
\* scores 0; for tag comparison the base is 40 for titleAndTwoColumns, 25 for
\* titleAndBody, 20 for blank and 0 for titleOnly, sectionHeader and other.
C6_Original ==
  (pc = "scored" /\ contentAnalysis.contentType = "comparison")
    => categoryScores = (IF layoutCategory = "titleAndTwoColumns" THEN 40
                         ELSE IF layoutCategory = "titleAndBody" THEN 25
                         ELSE IF layoutCategory = "blank" THEN 20 ELSE 0)

\* C6 amended: the base score is the tag's own entry for the category where
\* its row lists one, otherwise the general row's entry for that category,
\* otherwise 0; for tag comparison: 40 titleAndTwoColumns, 25 titleAndBody,
\* 20 blank, 25 titleOnly, 20 sectionHeader, 0 other.
C6_BaseScore ==
  pc = "scored" => categoryScores = C6_Row(contentAnalysis.contentType)[layoutCategory]

\* C6 witness: comparison content scored against a titleOnly layout, a
\* category the comparison row does not list
C6_Witness ==
  /\ pc = "scored"
  /\ contentAnalysis.contentType = "comparison"
  /\ layoutCategory = "titleOnly"
  /\ categoryScores = 25

\* 1 when the condition holds, 0 otherwise
C7_Ind(b) == IF b THEN 1 ELSE 0

\* the sum of the base score, the bonuses and the penalties of C7
C7_Sum ==
  LET types == TypesOf(ScoredLayout)
      has(t) == \E i \in DOMAIN types : types[i] = t
      a == contentAnalysis
  IN  categoryScores
      + 20 * C7_Ind(a.hasTitle /\ has("TITLE"))
      + 15 * C7_Ind(a.hasBody /\ has("BODY"))
      + 10 * C7_Ind(a.hasImage /\ has("PICTURE"))
      - 5 * C7_Ind(~a.hasTitle /\ has("TITLE"))
      - 5 * C7_Ind(~a.hasBody /\ has("BODY"))
      - 15 * C7_Ind(a.contentLength = "long" /\ layoutCategory = "titleOnly")
      - 10 * C7_Ind(a.contentLength = "short" /\ layoutCategory = "titleAndTwoColumns")

\* general content with a title and a medium body
C7_GeneralTitledMedium ==
  /\ contentAnalysis.contentType = "general"
  /\ contentAnalysis.hasTitle
  /\ contentAnalysis.hasBody
  /\ contentAnalysis.contentLength = "medium"

C5_Title == ToLowerCase(IF content.title.def THEN content.title.str ELSE <<>>)

C5_Body == ToLowerCase(IF content.body.def THEN content.body.str ELSE <<>>)

\* rule 1: title or body mentions "agenda"
C5_Agenda == Includes(C5_Title, kAgenda) \/ Includes(C5_Body, kAgenda)

\* rule 2: title mentions "quote", or the body contains a quotation mark
C5_QuoteRule ==
  Includes(C5_Title, kQuote) \/ (\E i \in DOMAIN C5_Body : C5_Body[i] = "\"" \/ C5_Body[i] = "'")

\* rule 3: title mentions "section" or "chapter"
C5_SectionRule == Includes(C5_Title, kSection) \/ Includes(C5_Title, kChapter)

\* rule 4: has an image and no body text
C5_ImageRule == contentAnalysis.hasImage /\ ~contentAnalysis.hasBody

\* rule 5: the profile counts more than 5 bullets
C5_ListRule == contentAnalysis.hasBullets /\ contentAnalysis.bulletCount > 5

\* rule 6: an explicit comparison flag, or title mentions "vs" or "versus"
C5_ComparisonRule ==
  (content.comparison.def /\ content.comparison.val)
  \/ Includes(C5_Title, kVs) \/ Includes(C5_Title, kVersus)

\* rule 7: title mentions "thank" or "conclusion"
C5_ClosingRule == Includes(C5_Title, kThank) \/ Includes(C5_Title, kConclusion)

\* rule k of the fixed order holds
C5_Rule(k) ==
  IF k = 1 THEN C5_Agenda
  ELSE IF k = 2 THEN C5_QuoteRule
  ELSE IF k = 3 THEN C5_SectionRule
  ELSE IF k = 4 THEN C5_ImageRule
  ELSE IF k = 5 THEN C5_ListRule
  ELSE IF k = 6 THEN C5_ComparisonRule
  ELSE IF k = 7 THEN C5_ClosingRule
  ELSE TRUE

C5_Tags == <<"agenda", "quote", "section", "image-focused", "list-heavy", "comparison",
             "closing", "general">>

\* C5: the content tag is that of the first matching rule in the order
\* agenda, quote, section, image-focused, list-heavy, comparison, closing,
\* general; content whose title or body contains "agenda" is agenda even
\* when the quote rule or a later rule matches too.
C5_FirstMatchingRule ==
  pc = "analyzed" =>
    /\ \A k \in 1..8 :
         (C5_Rule(k) /\ \A j \in 1..(k - 1) : ~C5_Rule(j)) => contentAnalysis.contentType = C5_Tags[k]
    /\ C5_Agenda => contentAnalysis.contentType = "agenda"

\* C5 witness: analysed content that matches the agenda rule and the quote
\* rule at once
C5_Witness ==
  /\ pc = "analyzed"
  /\ C5_Agenda
  /\ C5_QuoteRule
  /\ contentAnalysis.contentType = "agenda"

\* the layouts argument is empty or absent
C2_EmptyInput == ~layouts.def \/ Len(layouts.items) = 0

\* C2: findBestLayout over an empty or absent template sequence fails with
\* the empty-candidate error before any template is scored: no score is
\* computed and no partial MatchResult is returned.
C2_EmptyCandidateError ==
  (pc # "start" /\ C2_EmptyInput) =>
    /\ pc = "failed"
    /\ matchResult.threw
    /\ matchResult.error = "No layouts available"
    /\ scoredLayouts = <<>>
    /\ DOMAIN matchResult = {"threw", "error", "scored"}

\* C2 witness: a run over the empty array [] that has failed
C2_Witness == pc = "failed" /\ layouts.def /\ Len(layouts.items) = 0

\* C3: for a non-empty template sequence of length n, findBestLayout returns
\* exactly min(2, n-1) alternatives, none of which is the element returned
\* as bestLayout.
C3_Alternatives ==
  (pc # "start" /\ ~C2_EmptyInput) =>
    /\ pc = "done"
    /\ Len(matchResult.alternatives)
         = (IF Len(layouts.items) - 1 < 2 THEN Len(layouts.items) - 1 ELSE 2)
    /\ \A i \in DOMAIN matchResult.alternatives :
         matchResult.alternatives[i].objectId # matchResult.bestLayout.objectId

\* C3 witness: a run over four templates that returned two alternatives
C3_Witness ==
  /\ pc = "done"
  /\ Len(layouts.items) = 4
  /\ Len(matchResult.alternatives) = 2

\* the score the finished run gave input template i (objectId = place in
\* the input)
C4_Score(i) == scoredLayouts[CHOOSE k \in DOMAIN scoredLayouts : scoredLayouts[k].objectId = i].score

\* input template j ranks before input template i: a higher score, or the
\* same score and an earlier place in the input
C4_Before(j, i) ==
  \/ C4_Score(j) > C4_Score(i)
  \/ (C4_Score(j) = C4_Score(i) /\ j < i)

\* the returned templates in rank order: bestLayout, then the alternatives
C4_Ranked == <<matchResult.bestLayout>> \o matchResult.alternatives

\* C4: bestLayout is a template of maximal score, equal scores rank in input
\* order, and the alternatives are the 2nd and 3rd templates of that order.
C4_RankedByScoreThenInput ==
  pc = "done" =>
    /\ Len(C4_Ranked) = (IF Len(layouts.items) < 3 THEN Len(layouts.items) ELSE 3)
    /\ \A k \in DOMAIN C4_Ranked :
         LET i == C4_Ranked[k].objectId
         IN  /\ i \in DOMAIN layouts.items
             /\ C4_Ranked[k].score = C4_Score(i)
             /\ Cardinality({j \in DOMAIN layouts.items : C4_Before(j, i)}) = k - 1

\* C4 witness: a finished run in which the first three ranks hold equal
\* scores and the best template is not the first of the input
C4_Witness ==
  /\ pc = "done"
  /\ Len(matchResult.alternatives) = 2
  /\ matchResult.bestLayout.score = matchResult.alternatives[2].score
  /\ matchResult.bestLayout.objectId > 1

\* C8: the category ContentMatcher.getLayoutCategory uses for a template is
\* the category LayoutAnalyzer.determineLayoutCategory assigns to it.
C8_SameCategory ==
  pc = "done" => \A i \in DOMAIN layouts.items : matcherCategories[i] = analyzerCategories[i]

\* the number of layouts in the six category lists together
C9_Listed == 
  Len(categorized.titleOnly) + Len(categorized.titleAndBody) + Len(categorized.titleAndTwoColumns)
  + Len(categorized.sectionHeader) + Len(categorized.blank) + Len(categorized.other)

\* the number of places input layout i takes in the category lists
C9_Places(i) ==
  Cardinality({<<c, k>> \in Categories \X (1..Len(layouts.items)) :
                 k <= Len(categorized[c]) /\ categorized[c][k] = layouts.items[i]})

\* C9: determineLayoutCategory returns one of the six categories, and
\* categorizeLayouts partitions its input: the category lists have the six
\* category names as keys, every layout is in exactly one list, and the list
\* lengths sum to the number of layouts, which getLayoutStats reports.
C9_Partition ==
  /\ pc \in {"categorized", "counted", "done"} =>
       /\ \A i \in DOMAIN layouts.items : analyzerCategories[i] \in Categories
       /\ DOMAIN categorized = Categories
       /\ C9_Listed = Len(layouts.items)
       /\ \A i \in DOMAIN layouts.items :
            /\ C9_Places(i) = 1
            /\ \E k \in DOMAIN categorized[analyzerCategories[i]] :
                 categorized[analyzerCategories[i]][k] = layouts.items[i]
  /\ pc \in {"counted", "done"} =>
       /\ layoutStats.total = Len(layouts.items)
       /\ \A c \in Categories : layoutStats.categories[c] = Len(categorized[c])
       /\ layoutStats.categories.titleOnly + layoutStats.categories.titleAndBody
          + layoutStats.categories.titleAndTwoColumns + layoutStats.categories.sectionHeader
          + layoutStats.categories.blank + layoutStats.categories.other = layoutStats.total

\* C9 witness: four layouts categorized and counted, two of them in one
\* list and one in the list other
C9_Witness ==
  /\ pc = "done"
  /\ Len(layouts.items) = 4
  /\ \E c \in Categories : layoutStats.categories[c] = 2
  /\ layoutStats.categories.other = 1

tkTitleOnly == <<"t", "i", "t", "l", "e", " ", "o", "n", "l", "y">>

tkSectionHeader == <<"s", "e", "c", "t", "i", "o", "n", " ", "h", "e", "a", "d", "e", "r">>

tkTwoColumns == <<"t", "w", "o", " ", "c", "o", "l", "u", "m", "n", "s">>

tkBlank == <<"b", "l", "a", "n", "k">>

\* the display name of input layout i in lower case
C10_Name(i) ==
  ToLowerCase(IF layouts.items[i].displayName.def THEN layouts.items[i].displayName.str ELSE <<>>)

\* the name of layout i holds the token of priority k, in the spaced or the
\* underscored spelling the code also accepts
C10_Any(i, k) ==
  LET name == ToUpperCase(C10_Name(i))
  IN  IF k = 1 THEN Includes(name, kTitleOnlyS) \/ Includes(name, kTitleOnlyU)
      ELSE IF k = 2 THEN Includes(name, kSectionHeaderS) \/ Includes(name, kSectionHeaderU)
      ELSE IF k = 3 THEN Includes(name, kTwoColumnsS) \/ Includes(name, kTwoColumnsU)
      ELSE Includes(name, kBlank)

C10_Tokens == <<tkTitleOnly, tkSectionHeader, tkTwoColumns, tkBlank>>

C10_Category == <<"titleOnly", "sectionHeader", "titleAndTwoColumns", "blank">>

\* C10: a display name that contains "title only", "section header", "two
\* columns" or "blank" in any letter case gets that token's category
\* whatever the placeholders are (the first of these tokens, in this order,
\* when the name holds several).
C10_NameTokenWins ==
  pc \in {"categorized", "counted", "done"} =>
    \A i \in DOMAIN layouts.items : \A k \in 1..4 :
      (Includes(C10_Name(i), C10_Tokens[k]) /\ \A j \in 1..(k - 1) : ~C10_Any(i, j))
        => analyzerCategories[i] = C10_Category[k]

\* C10 witness: a layout named "Blank" in mixed case with a TITLE and a BODY
\* placeholder, categorized blank
C10_Witness ==
  /\ pc = "categorized"
  /\ Len(layouts.items) = 1
  /\ layouts.items[1].displayName = Str(nmBlank)
  /\ TypesOf(layouts.items[1]) = <<"TITLE", "BODY">>
  /\ analyzerCategories[1] = "blank"

\* the spec's structural rules over a placeholder array, in their order;
\* the title role is TITLE or CENTERED_TITLE
C11_Structural(types) ==
  LET hasTitle == ArrIncludes(types, "TITLE") \/ ArrIncludes(types, "CENTERED_TITLE")
      bodyLike == CountIn(types, {"BODY", "CONTENT", "SUBTITLE"})
      columns == CountIn(types, {"BODY", "CONTENT"})
  IN  IF hasTitle /\ bodyLike = 0 THEN "titleOnly"
      ELSE IF hasTitle /\ bodyLike = 1 THEN "titleAndBody"
      ELSE IF hasTitle /\ columns >= 2 THEN "titleAndTwoColumns"
      ELSE IF hasTitle /\ ArrIncludes(types, "SUBTITLE") THEN "sectionHeader"
      ELSE IF Len(types) = 0 THEN "blank"
      ELSE "other"

\* C11: when no name token matches, the category follows the structural
\* rules: title alone is titleOnly; title with exactly one BODY, CONTENT or
\* SUBTITLE is titleAndBody; title with at least two BODY or CONTENT is
\* titleAndTwoColumns (SUBTITLE does not count toward the two); title with
\* a SUBTITLE otherwise (TITLE + BODY + SUBTITLE) is sectionHeader; no
\* placeholder is blank; anything else is other.
C11_StructuralRules ==
  pc \in {"categorized", "counted", "done"} =>
    \A i \in DOMAIN layouts.items :
      (\A k \in 1..4 : ~C10_Any(i, k))
        => analyzerCategories[i] = C11_Structural(TypesOf(layouts.items[i]))

\* the raw layout entries of the presentation (none when the layouts
\* collection is missing)
C12_Raw == IF presentation.layouts.kind = "array" THEN presentation.layouts.items ELSE <<>>

\* the page elements of a raw entry (none when it has no pageElements)
C12_Elements(raw) == IF raw.pageElements.def THEN raw.pageElements.items ELSE <<>>

\* the element declares a placeholder
C12_Declares(element) == element.shape.def /\ element.shape.placeholder.def

\* the ids of the page elements of a raw entry that declare a placeholder,
\* in element order
C12_DeclaredIds(raw) ==
  LET declared == SelectSeq(C12_Elements(raw), C12_Declares)
  IN  [j \in 1..Len(declared) |-> declared[j].objectId]

\* C12: extractLayouts returns one template per raw layout entry in input
\* order; a template's placeholders are exactly the page elements that
\* declare a placeholder, in element order; an entry without page elements
\* has no placeholders; an empty or missing layouts collection gives the
\* empty sequence and no error.
C12_OneTemplatePerEntry ==
  (pc # "start" /\ presentation.def /\ presentation.layouts.kind \in {"falsy", "array"}) =>
    /\ pc = "extracted"
    /\ ~extracted.threw
    /\ Len(extracted.layouts) = Len(C12_Raw)
    /\ \A i \in DOMAIN C12_Raw :
         LET template == extracted.layouts[i]
         IN  /\ template.objectId = C12_Raw[i].objectId
             /\ Len(template.placeholders) = Len(C12_DeclaredIds(C12_Raw[i]))
             /\ \A j \in DOMAIN template.placeholders :
                  template.placeholders[j].objectId = C12_DeclaredIds(C12_Raw[i])[j]
             /\ (Len(C12_Elements(C12_Raw[i])) = 0 => template.placeholders = <<>>)

\* C12 witness: an extraction of one entry whose second of three page
\* elements declares no placeholder, giving the first and the third
C12_Witness ==
  /\ pc = "extracted"
  /\ Len(C12_Raw) = 1
  /\ Len(C12_Elements(C12_Raw[1])) = 3
  /\ ~C12_Declares(C12_Elements(C12_Raw[1])[2])
  /\ Len(extracted.layouts[1].placeholders) = 2
  /\ extracted.layouts[1].placeholders[2].objectId = <<1, 3>>

\* C13: extractLayouts never raises: an absent presentation and one whose
\* layouts field is not a sequence give the empty sequence, not an error.
C13_NeverRaises ==
  pc # "start" =>
    /\ pc = "extracted"
    /\ ~extracted.threw
    /\ (~presentation.def \/ presentation.layouts.kind # "array") => extracted.layouts = <<>>

\* the profile analyzeContent gives a content with every field absent
C14_Defaults ==
  [hasTitle |-> FALSE, hasBody |-> FALSE, hasImage |-> FALSE, hasBullets |-> FALSE,
   hasMultipleColumns |-> FALSE, contentLength |-> "short", contentType |-> "general",
   imageCount |-> 0, bulletCount |-> 0]

\* C14: analyzeContent returns a profile without raising for every content
\* with any subset of its optional fields absent, the profile of a content
\* with every field absent is all flags false, short, general, no image and
\* no bullet; findBestLayout raises for no input other than an empty (or
\* absent) template sequence.
C14_Permissive ==
  /\ (pc \in {"analyzed", "threw"} /\ content \in PartialContents) =>
       /\ pc = "analyzed"
       /\ DOMAIN contentAnalysis = DOMAIN C14_Defaults
  /\ (pc = "analyzed" /\ content = EmptyContent) => contentAnalysis = C14_Defaults
  /\ pc = "failed" => C2_EmptyInput

\* the length L of the body of the content (0 for an absent body)
C15_Length == IF content.body.def THEN Len(content.body.str) + content.body.fill ELSE 0

\* C15: the length bucket depends on the body length L alone: long iff
\* L > 500, medium iff 150 < L <= 500, short iff L <= 150 (an absent or
\* empty body is short); 150 is short and 500 is medium.
C15_LengthBucket ==
  pc = "analyzed" =>
    /\ contentAnalysis.contentLength \in {"short", "medium", "long"}
    /\ contentAnalysis.contentLength = "long" <=> C15_Length > 500
    /\ contentAnalysis.contentLength = "medium" <=> (150 < C15_Length /\ C15_Length <= 500)
    /\ contentAnalysis.contentLength = "short" <=> C15_Length <= 150

\* C15 witness: a body of exactly 500 characters analyzed as medium
C15_Witness ==
  /\ pc = "analyzed"
  /\ C15_Length = 500
  /\ contentAnalysis.contentLength = "medium"

\* the content carries an image reference
C16_HasImage ==
  (content.imageUrl.def /\ Len(content.imageUrl.str) > 0)
  \/ (content.images.def /\ Len(content.images.items) > 0)

\* the content has no body: the body is absent, empty or blank
C16_NoBody ==
  ~content.body.def \/ (content.body.fill = 0 /\ \A i \in DOMAIN content.body.str : content.body.str[i] = " ")

\* the content has no title: the title is absent, empty or blank
C16_NoTitle ==
  ~content.title.def \/ \A i \in DOMAIN content.title.str : content.title.str[i] = " "

\* the shapes of the three templates: no placeholder, TITLE, TITLE + BODY
C16_Shapes == {<<>>, <<"TITLE">>, <<"TITLE", "BODY">>}

\* the templates are a placeholder-less blank template, TITLE-only
\* templates and TITLE + BODY templates, with at least one blank
C16_ThreeTemplates ==
  /\ \A i \in DOMAIN layouts.items :
       /\ TypesOf(layouts.items[i]) \in C16_Shapes
       /\ layouts.items[i].displayName
            \in {Str(nmBlank), Str(nmTitleOnly), Str(nmTitleAndBody)}
  /\ \E i \in DOMAIN layouts.items : TypesOf(layouts.items[i]) = <<>>

\* C16: content with an image reference and no body (and no agenda, quote
\* or section token) is image-focused; for it the base score of blank (40)
\* exceeds that of titleOnly (35) and of titleAndBody (20); when it has no
\* title either, a placeholder-less blank template is selected over a
\* TITLE-only and a TITLE + BODY template.
C16_ImageFocusedBlank ==
  (pc = "done" /\ C16_HasImage /\ C16_NoBody /\ ~C5_Agenda /\ ~C5_QuoteRule /\ ~C5_SectionRule) =>
    /\ matchResult.contentAnalysis.contentType = "image-focused"
    /\ getCategoryScores(matchResult.contentAnalysis, "blank") = 40
    /\ getCategoryScores(matchResult.contentAnalysis, "titleOnly") = 35
    /\ getCategoryScores(matchResult.contentAnalysis, "titleAndBody") = 20
    /\ (C16_NoTitle /\ C16_ThreeTemplates) =>
         /\ matchResult.bestLayout.placeholders = <<>>
         /\ \A i \in DOMAIN scoredLayouts :
              scoredLayouts[i].placeholders # <<>> => scoredLayouts[i].score < matchResult.bestLayout.score

\* C16 witness: image-only content matched against a TITLE + BODY, a
\* TITLE-only and a blank template, in that order, with blank selected
C16_Witness ==
  /\ pc = "done"
  /\ C16_HasImage /\ C16_NoBody /\ C16_NoTitle
  /\ Len(layouts.items) = 3
  /\ TypesOf(layouts.items[1]) = <<"TITLE", "BODY">>
  /\ TypesOf(layouts.items[2]) = <<"TITLE">>
  /\ TypesOf(layouts.items[3]) = <<>>
  /\ matchResult.bestLayout.objectId = 3
  /\ matchResult.bestLayout.score = 40

\* the part of the reasoning named kind is due for the finished run
C17_Due(kind) ==
  LET profile == matchResult.contentAnalysis
      best == matchResult.bestLayout
  IN  IF kind = "type" THEN profile.contentType # "general"
      ELSE IF kind = "title"
        THEN profile.hasTitle /\ \E j \in DOMAIN best.placeholders : best.placeholders[j].type = "TITLE"
      ELSE IF kind = "body"
        THEN profile.hasBody /\ \E j \in DOMAIN best.placeholders : best.placeholders[j].type = "BODY"
      ELSE IF kind = "image" THEN profile.hasImage
      ELSE TRUE

\* the parts due, in the order of the reasoning string
C17_Parts == SelectSeq(<<"type", "title", "body", "image", "score">>, C17_Due)

\* C17: the reasoning is, in this order, the tag-to-category note (iff the
\* tag is not general), the title note (iff the content has a title and
\* the best template a TITLE placeholder), the body note (iff the content
\* has a body and the best template a BODY placeholder), the image note
\* (iff the content has an image) and the score; the score shown is
\* bestLayout.score and is the last part.
C17_ReasoningParts ==
  pc = "done" =>
    LET reasoning == matchResult.reasoning
    IN  /\ Len(reasoning) = Len(C17_Parts)
        /\ \A i \in DOMAIN reasoning : reasoning[i].note = C17_Parts[i]
        /\ reasoning[Len(reasoning)].note = "score"
        /\ reasoning[Len(reasoning)].score = matchResult.bestLayout.score
        /\ \A i \in DOMAIN reasoning :
             reasoning[i].note = "type" =>
               /\ i = 1
               /\ reasoning[i].contentType = matchResult.contentAnalysis.contentType
               /\ reasoning[i].category = getLayoutCategory(matchResult.bestLayout)

\* C17 witness: a run whose reasoning holds all five parts with a score
\* above 0, and whose best template is not the first of the input
C17_Witness ==
  /\ pc = "done"
  /\ Len(matchResult.reasoning) = 5
  /\ matchResult.reasoning[5].score > 0
  /\ matchResult.bestLayout.objectId > 1

C20_LongList ==
  \/ (content.bullets.def /\ Len(content.bullets.items) > 5)
  \/ (content.bulletPoints.def /\ Len(content.bulletPoints.items) > 5)

\* C20: content that no earlier rule matches and that carries a list of
\* more than 5 items in bullets or in bulletPoints is list-heavy, whatever
\* the other bullet field holds (absent, empty or a shorter list).
C20_ListHeavyEitherField ==
  (pc = "analyzed" /\ C20_LongList /\ ~C5_Agenda /\ ~C5_QuoteRule /\ ~C5_SectionRule /\ ~C5_ImageRule)
    => contentAnalysis.contentType = "list-heavy"

\* C21: in the all-in-one workflow of complete-workflow.js every layout
\* score, and so the score of the selected layout that sets the confidence
\* level, lies within 0..100 for every content and layout.
C21_WorkflowScoreInRange == pc = "scored" => 0 <= layoutScore /\ layoutScore <= 100

\* the service answered the last request with a match
C22_Matched == "status" \in DOMAIN response /\ response.status = 200

\* the weight the request supplies under the name, the default otherwise
C22_Weight(name, default) ==
  IF \E e \in request.customWeights.entries : e[1] = name
  THEN (CHOOSE e \in request.customWeights.entries : e[1] = name)[2]
  ELSE default

\* the score of the layout with the placeholder bonuses of
\* calculateLayoutScore taken from the request's customWeights
C22_WeightedScore(layout) ==
  LET analysis == response.contentAnalysis
      types == TypesOf(layout)
      category == getLayoutCategory(layout)
  IN  Clamp(getCategoryScores(analysis, category)
            + (IF analysis.hasTitle /\ ArrIncludes(types, "TITLE") THEN C22_Weight("titleMatch", 20) ELSE 0)
            + (IF analysis.hasBody /\ ArrIncludes(types, "BODY") THEN C22_Weight("bodyMatch", 15) ELSE 0)
            + (IF analysis.hasImage /\ ArrIncludes(types, "PICTURE") THEN C22_Weight("imageMatch", 10) ELSE 0)
            - (IF ~analysis.hasTitle /\ ArrIncludes(types, "TITLE") THEN 5 ELSE 0)
            - (IF ~analysis.hasBody /\ ArrIncludes(types, "BODY") THEN 5 ELSE 0)
            - (IF analysis.contentLength = "long" /\ category = "titleOnly" THEN 15 ELSE 0)
            - (IF analysis.contentLength = "short" /\ category = "titleAndTwoColumns" THEN 10 ELSE 0))

\* C22: when a /api/match-layout request supplies options.customWeights,
\* the scores it returns are computed with the supplied weights in place
\* of the defaults.
C22_CustomWeightsApplied ==
  C22_Matched /\ request.customWeights.def =>
    /\ response.selectedLayout.score = C22_WeightedScore(response.selectedLayout)
    /\ \A i \in DOMAIN response.alternatives :
         response.alternatives[i].score = C22_WeightedScore(response.alternatives[i])

\* the layouts of a comparison run
C23_Items == IF layouts.def THEN layouts.items ELSE <<>>

\* C23: the inline ContentMatcher of match-layout.js is equivalent to the
\* core ContentMatcher: on every content and layout array both give each
\* layout the same category and the same score, and return or throw the
\* same result (bestLayout, alternatives, contentAnalysis, reasoning).
C23_InlineEquivalent ==
  pc = "compared" =>
    /\ \A i \in DOMAIN C23_Items :
         inlineGetLayoutCategory(C23_Items[i]) = getLayoutCategory(C23_Items[i])
    /\ inlineResult.threw = matchResult.threw
    /\ inlineResult.scored = matchResult.scored
    /\ inlineResult.threw => inlineResult.error = matchResult.error
    /\ ~inlineResult.threw =>
         /\ inlineResult.bestLayout = matchResult.bestLayout
         /\ inlineResult.alternatives = matchResult.alternatives
         /\ inlineResult.reasoning = matchResult.reasoning

\* the handler answered with the results object
C24_Summarized == pc = "responded" /\ "results" \in DOMAIN batchResponse

\* the number of entries of the list that carry the slide index
C24_Count(list, k) == Cardinality({j \in DOMAIN list : list[j].slideIndex = k})

\* C24: once the layouts were extracted, the summary of
\* /api/create-slides-batch is consistent for every sequence of per-slide
\* outcomes: successCount + failureCount = totalSlides = the number of
\* requested slides, slides has successCount entries, errors has
\* failureCount entries, and every index 1..n is in exactly one of them.
C24_SummaryConsistent ==
  C24_Summarized =>
    LET r == batchResponse.results
        n == Len(batchRequest.slides.items)
    IN  /\ r.totalSlides = n
        /\ r.successCount + r.failureCount = n
        /\ Len(r.slides) = r.successCount
        /\ Len(r.errors) = r.failureCount
        /\ \A k \in 1..n : C24_Count(r.slides, k) + C24_Count(r.errors, k) = 1

\* a summary of several slides of which some were created and some failed,
\* one in the matching and one in batchUpdate
C24_Witness ==
  /\ C24_Summarized
  /\ Len(batchRequest.slides.items) >= 3
  /\ batchResponse.results.successCount > 0
  /\ \E j, k \in DOMAIN batchResponse.results.errors :
       /\ batchResponse.results.errors[j].error = "TypeError"
       /\ batchResponse.results.errors[k].error = "Failed to batch update"

\* C25: the batch result has status 200 and success true exactly when no
\* slide failed, status 207 and partialSuccess true exactly when at least
\* one slide was created and at least one failed, and status 400 exactly
\* when there is at least one slide and every slide failed; success true
\* implies that every requested slide was sent to batchUpdate and recorded.
C25_StatusByOutcome ==
  C24_Summarized =>
    LET r == batchResponse.results
        n == Len(batchRequest.slides.items)
        created == {r.slides[j].slideIndex : j \in DOMAIN r.slides}
        failed == {r.errors[j].slideIndex : j \in DOMAIN r.errors}
    IN  /\ batchResponse.status \in {200, 207, 400}
        /\ batchResponse.status = 200 <=> failed = {}
        /\ batchResponse.success <=> failed = {}
        /\ batchResponse.status = 207 <=> (created # {} /\ failed # {})
        /\ batchResponse.partialSuccess <=> (created # {} /\ failed # {})
        /\ batchResponse.status = 400 <=> (n >= 1 /\ created = {})
        /\ batchResponse.success =>
             /\ created = 1..n
             /\ \A k \in 1..n : \E c \in DOMAIN calls : calls[c] = <<"batchUpdate", k>>

\* a batch answered 207: a created slide and a failed one
C25_Witness ==
  /\ C24_Summarized
  /\ batchResponse.status = 207
  /\ Len(batchResponse.results.slides) > 0
  /\ Len(batchResponse.results.errors) > 0

\* the calls are one getPresentation, then batchUpdate calls of rising
\* slide indices
C26_CallOrder ==
  /\ \A c \in DOMAIN calls : (calls[c][1] = "getPresentation") <=> (c = 1)
  /\ \A c, d \in DOMAIN calls : 1 < c /\ c < d => calls[c][2] < calls[d][2]

\* while the batchUpdate of a slide is awaited, the slides before it are
\* all recorded and the call is the last one issued
C26_OneAtATime ==
  pc = "updating" =>
    /\ results.successCount + results.failureCount = loopIndex
    /\ calls[Len(calls)] = <<"batchUpdate", loopIndex + 1>>

\* nothing is matched or sent before the presentation is there, and
\* nothing at all when it has no layouts
C26_FetchFirst ==
  /\ pc = "start" => calls = <<>>
  /\ pc = "fetching" =>
       calls = <<<<"getPresentation", 0>>>> /\ results.successCount + results.failureCount = 0
  /\ (pc = "responded" /\ batchResponse.status = 500
      /\ batchResponse.error = "No layouts found in presentation") =>
       calls = <<<<"getPresentation", 0>>>>

\* slide k is recorded in the answer as created or as failed, once
C26_Attempted(k) ==
  /\ C24_Summarized
  /\ C24_Count(batchResponse.results.slides, k) + C24_Count(batchResponse.results.errors, k) = 1

\* a step of the loop: recording a slide, created or failed, leads to the
\* iteration of the next index, and the loop is left only by the answer
\* in which every requested slide is recorded
C26_LoopStep ==
  pc \in {"loop", "updating"} =>
    /\ pc' \in {"loop", "updating", "responded"}
    /\ results' # results => (pc' = "loop" /\ loopIndex' = loopIndex + 1)
    /\ results' = results => loopIndex' = loopIndex
    /\ pc' = "responded" => (\A k \in 1..Len(batchRequest.slides.items) : C26_Attempted(k))'

\* C26: /api/create-slides-batch fetches the presentation once, before any
\* slide is processed; the slides are then attempted one at a time in index
\* order, each once, the batchUpdate of a slide never issued before the
\* slide before it is recorded; a failed slide never keeps the later slides
\* from being attempted; and without layouts no batchUpdate is issued.
C26_SequentialBatch ==
  /\ [](C26_CallOrder /\ C26_OneAtATime /\ C26_FetchFirst)
  /\ [][C26_LoopStep]_vars

\* slide 1 failed and slide 2 was created after it
C26_Witness ==
  /\ C24_Summarized
  /\ \E j \in DOMAIN results.errors : results.errors[j].slideIndex = 1
  /\ \E j \in DOMAIN results.slides : results.slides[j].slideIndex = 2

\* executeCompleteWorkflow has returned
C27_Returned == pc = "returned" /\ "success" \in DOMAIN workflowResult

\* the calls issued so far are the fetch alone, or the fetch and then the
\* one batchUpdate
C27_Calls ==
  /\ Len(calls) <= 2
  /\ Len(calls) >= 1 => calls[1] = <<"getPresentation", 0>>
  /\ Len(calls) = 2 => calls[2] = <<"batchUpdate", 1>>

\* the status that goes with each step, and what has happened by then
C27_StepState ==
  /\ workflow \in {NoWorkflow, [step |-> 1, status |-> "extracting_layouts"],
                   [step |-> 2, status |-> "selecting_layout"],
                   [step |-> 3, status |-> "creating_slide"],
                   [step |-> 4, status |-> "completed"]}
  /\ C27_Calls
  /\ Len(calls) = 2 <=> workflow.step >= 3
  /\ workflow.step >= 2 => (~extracted.threw /\ Len(extracted.layouts) > 0)
  /\ workflow.status = "completed" => (C27_Returned /\ workflowResult.success)

\* the return value: success with the completed workflow, or failure with
\* the step the throw happened in
C27_Result ==
  C27_Returned =>
    /\ workflowResult.workflow = workflow
    /\ workflowResult.success <=> workflow.status = "completed"
    /\ ~workflowResult.success =>
         /\ workflow.step \in 1..3
         /\ workflow.step = 1 <=> (Len(calls) = 1 /\ ("threw" \notin DOMAIN matchResult))
         /\ workflow.step = 2 <=> (Len(calls) = 1 /\ "threw" \in DOMAIN matchResult
                                     /\ matchResult.threw)
         /\ workflow.step = 3 <=> Len(calls) = 2

\* a step of the workflow never lowers the step counter and raises it by
\* one at most
C27_StepForward == workflow'.step \in {workflow.step, workflow.step + 1}

C28_Built == pc \in {"built", "prepared", "planned"}

\* C28: whenever the content has a non-empty bullet list and the selected
\* layout has a BODY placeholder, the edit plan contains an insertText into
\* that BODY placeholder carrying the bullets, with or without a body text
\* in the content.
C28_BulletsInserted ==
  (/\ C28_Built
   /\ content.bullets.def /\ Len(content.bullets.items) > 0
   /\ Len(placeholdersByType(layouts.items[1], "BODY")) > 0)
  => \E r \in DOMAIN requests :
       /\ requests[r].kind = "insertText"
       /\ requests[r].objectId = placeholdersByType(layouts.items[1], "BODY")[1].objectId
       /\ requests[r].text = <<"bullets", content.bullets.items>>

\* C29: in a /api/match-layout response, explanation.alternatives lists
\* the up to two highest-scoring layouts of this run other than the
\* selected one, each with the score this run computed, and so agrees with
\* the alternatives field of the same response.
C29_ExplanationAgrees ==
  C22_Matched =>
    LET listed == response.explanation.alternatives
        ranked == response.alternatives
    IN  /\ Len(listed) = Len(ranked)
        /\ \A k \in DOMAIN listed :
             /\ listed[k].displayName = ranked[k].displayName
             /\ listed[k].score = ranked[k].score

\* C30: all per-slide items Prepare Batch produces from one batch request
\* carry the same batchId, so the batchId Aggregate Results reports, taken
\* from the first item, identifies every slide result of the batch.
C30_OneBatchId ==
  /\ \A j \in DOMAIN batchItems : \A k \in DOMAIN batchItems :
       batchItems[j].batchId = batchItems[k].batchId
  /\ pc = "aggregated" =>
       \A k \in DOMAIN slideItems : slideItems[k].batchId = aggregateResult.batchId

====
